---- MODULE Spec2Model ----
(***************************************************************************)
(* Lifeline Mesh: the crypto core (encryptMessage / decryptMessage), the   *)
(* validity window and the seen-set of the message store.                  *)
(*                                                                         *)
(* Cryptography is symbolic: a byte string is a record that names what it  *)
(* was built from; a hash, a signature and a sealed box are injective      *)
(* constructors, and verify / open succeed exactly on what sign / seal     *)
(* built.  Base64 text keeps, next to the bytes it decodes to, whether it  *)
(* is decodable and whether it is the canonical encoding of those bytes.   *)
(***************************************************************************)
EXTENDS Integers, Sequences, FiniteSets, TLC

VARIABLES
    now,      \* Date.now(), milliseconds
    env,      \* the envelope on the wire: <<>> or <<message>>
    origin,   \* how env was made: the encryptMessage call, or a crafted envelope
    hist,     \* the changes a relay made to env since it was made
    seenDB,   \* the keys a synchronous replay check has marked (seenDB of the protocol)
    seen,     \* object store STORE_SEEN: the set of seen entries
    tasks,    \* checkAndMarkSeen invocations in flight or finished
    last,     \* the last decryptMessage call: its arguments and its outcome
    expiredAt, \* when env was first rejected as expired in normal mode: <<>> or <<t>>
    contacts, \* object store STORE_CONTACTS: fingerprint -> <<>> or <<entry>>
    firstKeys, \* per fingerprint, the keys recorded when the contact was created
    chunks,   \* object store STORE_CHUNKS: the set of stored chunk entries
    ctasks,   \* storeChunk invocations in flight
    cret,     \* the last storeChunk call that returned: its chunk and its result
    ncomplete, \* per message, how many storeChunk calls have returned a chunk set
    submitted, \* the chunks handed to storeChunk so far
    cin,      \* the arguments of chunkMessage: the envelope and maxChunkSize
    cout,     \* the outcome of chunkMessage(cin)
    pile,     \* the chunks a receiver holds, in the order it got them
    edits,    \* what the link did to the chunks: losses, repeats, changes
    rout,     \* the outcome of reassembleChunks(pile)
    receivedChunks, \* QRTransport.receivedChunks: msgId -> array of chunk or null
    qlast,    \* the last processScanned call: its data, what it returned and fired
    scanned,  \* the chunks scanned so far
    outbox,   \* the messages the node carries for others
    forwarded, \* the forwarded table: {peerFp, msgId} entries
    sync,     \* per peer, where the node's performSync with that peer stands
    myInv,    \* the sync-inv frame performSync has just built, and for whom
    syncEvent, \* what has just ended a performSync: a peerAck, or an error thrown
    mtask,    \* where runMaintenance stands
    removed,  \* the entries the current or last runMaintenance deleted
    accepted, \* the seen keys of the decryptMessage calls that returned a message
    manager,  \* the TransportManager: its transports Map, its callbacks
    wired,    \* per transport object, the transport its onMessage / onError names
    registered, \* per name, the transport object registered last under it
    mlast,    \* the last call on the manager or emission of a transport
    fin,      \* the arguments of a call of a pure function
    fout,     \* what the call returned
    bleTasks, \* the sendMessage / sendIdentity calls on the sending BLEManager
    bleRx,    \* the receiving BLEManager: reassemblyBuffer and expectedChunks
    bleEvents, \* the onMessageReceived and onError calls of the receiver, in order
    outboxStore, \* object store STORE_OUTBOX: msgId -> entry
    otasks,   \* updateOutboxStatus invocations in flight or finished
    ocalls    \* per msgId added, the updateOutboxStatus calls that completed a write

\* the variables of the crypto core and of the seen store
coreVars == <<now, env, origin, hist, seenDB, seen, tasks, last, expiredAt>>

\* the other object stores, which the crypto core never touches
contactVars == <<contacts, firstKeys>>
chunkVars == <<chunks, ctasks, cret, ncomplete, submitted>>
chunkerVars == <<cin, cout, pile, edits, rout>>
qrVars == <<receivedChunks, qlast, scanned>>
syncVars == <<outbox, forwarded, sync, myInv, syncEvent>>
maintVars == <<mtask, removed, accepted>>
managerVars == <<manager, wired, registered, mlast>>
pureVars == <<fin, fout>>
bleVars == <<bleTasks, bleRx, bleEvents>>
outboxVars == <<outboxStore, otasks, ocalls>>
otherVars ==
    <<contactVars, chunkVars, chunkerVars, qrVars, syncVars, maintVars, managerVars,
      pureVars, bleVars, outboxVars>>

\* what the operations of one store leave alone, besides coreVars
besideContacts ==
    <<chunkVars, chunkerVars, qrVars, syncVars, maintVars, managerVars, pureVars,
      bleVars, outboxVars>>
besideChunks ==
    <<contactVars, chunkerVars, qrVars, syncVars, maintVars, managerVars, pureVars,
      bleVars, outboxVars>>
besideChunker ==
    <<contactVars, chunkVars, qrVars, syncVars, maintVars, managerVars, pureVars,
      bleVars, outboxVars>>
besideQr ==
    <<contactVars, chunkVars, chunkerVars, syncVars, maintVars, managerVars, pureVars,
      bleVars, outboxVars>>
besideSync ==
    <<contactVars, chunkVars, chunkerVars, qrVars, maintVars, managerVars, pureVars,
      bleVars, outboxVars>>
besideMaint ==
    <<contactVars, chunkerVars, qrVars, syncVars, managerVars, pureVars,
      bleVars, outboxVars>>
besideManager ==
    <<contactVars, chunkVars, chunkerVars, qrVars, syncVars, maintVars, pureVars,
      bleVars, outboxVars>>
besideBle ==
    <<contactVars, chunkVars, chunkerVars, qrVars, syncVars, maintVars, managerVars,
      pureVars, outboxVars>>
besidePure ==
    <<contactVars, chunkVars, chunkerVars, qrVars, syncVars, maintVars, managerVars,
      bleVars, outboxVars>>
besideOutbox ==
    <<contactVars, chunkVars, chunkerVars, qrVars, syncVars, maintVars, managerVars,
      pureVars, bleVars>>

vars == <<coreVars, otherVars>>

(***************************************************************************)
(* Bounds of the model.                                                    *)
(***************************************************************************)
MaxTamper == 1
MaxTasks == 2
MaxSets == 2
MaxEnvLen == 5
MaxEdits == 1
MaxRuns == 2

(***************************************************************************)
(* Program constants.                                                      *)
(***************************************************************************)
DOMAIN_TAG == "DMESH_MSG_V1"
MAX_BYTES == 150 * 1024
MAX_SKEW_MS == 10 * 60 * 1000
DEFAULT_TTL_MS == 7 * 24 * 60 * 60 * 1000
SIGN_PK_LEN == 32
BOX_PK_LEN == 32
NONCE_LEN == 24
SIGNATURE_LEN == 64
BOX_OVERHEAD == 16
CHUNK_OVERHEAD == 150

(***************************************************************************)
(* Optional values: JavaScript undefined / null is <<>>, a value v is <<v>>*)
(* Where the code tells null from undefined, undefined is <<>> and null is *)
(* Null, whose value in arithmetic is 0.                                   *)
(***************************************************************************)
None == <<>>
Some(v) == <<v>>
IsSome(o) == o # <<>>
Get(o) == o[1]
Null == <<0, "null">>
Nullish(o) == o = None \/ o = Null

(***************************************************************************)
(* Values of an envelope's ts other than integers: Half(n) is the number   *)
(* n + 0.5, Infinite and NotANumber are the numbers Infinity and NaN, and  *)
(* Text is a string that is not the text of a number.                      *)
(***************************************************************************)
Half(n) == <<n, "half">>
Infinite == <<0, "Infinity">>
NotANumber == <<0, "NaN">>
Text == <<0, "text">>

\* how many halves v has beyond its integer part
Halves(v) == IF Len(v) = 2 /\ v[2] = "half" THEN 1 ELSE 0

\* Number(v): undefined and strings that are no numbers give NaN, null gives 0
Number(v) ==
    CASE v = None \/ v = NotANumber \/ v = Text ->
            [finite |-> FALSE, int |-> 0, half |-> FALSE]
      [] v = Infinite -> [finite |-> FALSE, int |-> 0, half |-> FALSE]
      [] v = Null -> [finite |-> TRUE, int |-> 0, half |-> FALSE]
      [] OTHER -> [finite |-> TRUE, int |-> v[1], half |-> Halves(v) = 1]

\* the value that a number found by Number is
ValueOf(x) == IF x.half THEN Half(x.int) ELSE x.int

(***************************************************************************)
(* Byte strings.                                                           *)
(***************************************************************************)
Bytes(id, n) == [id |-> id, bit |-> 0, len |-> n]

\* one bit of the byte string changed, the length kept; no bits, no change
FlipBit(b) == IF b.len = 0 THEN b ELSE [b EXCEPT !.bit = 1 - @]

\* the last byte dropped
Truncate(b) == [b EXCEPT !.len = @ - 1]


(***************************************************************************)
(* Base64 (naclUtil.encodeBase64 / decodeBase64).                          *)
(***************************************************************************)
encodeBase64(b) == [ok |-> TRUE, canon |-> TRUE, bytes |-> b]

\* the empty string "", the one string that JavaScript takes as false
EmptyString == encodeBase64(Bytes("", 0))

\* decodeBase64 throws on text that is not base64
Decodable(s) == s.ok
decodeBase64(s) == s.bytes

\* the same bytes written with non-zero padding bits: decodes alike, differs as text
Recode(s) == [s EXCEPT !.canon = FALSE]
Garble(s) == [s EXCEPT !.ok = FALSE]

(***************************************************************************)
(* Big-endian encoders.  A number the encoders are given may be as large   *)
(* as 2^53, so it is written in base 2^16: w holds the four digits of its  *)
(* integer part, most significant first, and half says that one half is to *)
(* be added.  The encoders return the sequence of the bytes.               *)
(***************************************************************************)
TwoTo16 == 256 * 256

\* a number of the model, which stays below 2^31
Num(n) == [w |-> <<0, 0, n \div TwoTo16, n % TwoTo16>>, half |-> FALSE]

\* a number found by Number
Wide(x) == [Num(x.int) EXCEPT !.half = x.half]

\* Math.floor(x / 4294967296)
FloorDiv2To32(x) == [w |-> <<0, 0, x.w[1], x.w[2]>>, half |-> FALSE]

\* x >>> 0: the integer part modulo 2^32
ToUint32(x) == [w |-> <<0, 0, x.w[3], x.w[4]>>, half |-> FALSE]

\* DataView.setUint32(offset, v, false) for v below 2^32
setUint32(v) == <<v.w[3] \div 256, v.w[3] % 256, v.w[4] \div 256, v.w[4] % 256>>

u32be(n) == setUint32(ToUint32(n))

\* the high word found with ts >>> 32, which shifts by 32 mod 32
u64beFromNumber_shift(ts) ==
    LET hi == ToUint32(ts)
        lo == ToUint32(ts)
    IN  setUint32(ToUint32(hi)) \o setUint32(ToUint32(lo))

u64beFromNumber(ts) ==
    LET hi == FloorDiv2To32(ts)
        lo == ToUint32(ts)
    IN  setUint32(ToUint32(hi)) \o setUint32(ToUint32(lo))

(***************************************************************************)
(* generateSafetyNumber.  A fingerprint is the sequence of its bytes; the  *)
(* string returned is the sequence of its characters, a digit standing for *)
(* itself.                                                                 *)
(***************************************************************************)
\* String(n), as the sequence of its decimal digits
RECURSIVE DecimalString(_)
DecimalString(n) ==
    IF n < 10 THEN <<n>> ELSE Append(DecimalString(n \div 10), n % 10)

\* a ^ b on bytes
RECURSIVE BitXor(_, _)
BitXor(a, b) ==
    IF a = 0 /\ b = 0 THEN 0
    ELSE (IF a % 2 = b % 2 THEN 0 ELSE 1) + 2 * BitXor(a \div 2, b \div 2)

\* the comparator handed to sort: the difference at the first place where
\* a and b differ
RECURSIVE CompareBytes(_, _, _)
CompareBytes(a, b, i) ==
    IF i > Len(a) THEN 0
    ELSE IF a[i] # b[i] THEN a[i] - b[i]
    ELSE CompareBytes(a, b, i + 1)

\* [fp1, fp2].sort(comparator)
SortPair(fp1, fp2) ==
    IF CompareBytes(fp1, fp2, 1) > 0 THEN <<fp2, fp1>> ELSE <<fp1, fp2>>

\* view.getUint32(0, false) % 100000000, the product kept below 2^31
Uint32Mod(b, m) ==
    LET hi == (b[1] * 256 + b[2]) * 256 + b[3]
    IN  ((((hi * 16) % m) * 16) + b[4]) % m

\* String(num).padStart(8, "0")
RECURSIVE PadStart(_, _)
PadStart(digits, n) == IF Len(digits) >= n THEN digits ELSE PadStart(<<0>> \o digits, n)

\* the fingerprints sorted in reverse
generateSafetyNumber_firstMinusSecond(fp1, fp2) ==
    LET combined == [i \in 1..16 |-> (256 + fp1[i] - fp2[i]) % 256]
        num == Uint32Mod(combined, 100000000)
        padded == PadStart(DecimalString(num), 8)
    IN  SubSeq(padded, 1, 4) \o <<"-">> \o SubSeq(padded, 5, Len(padded))

generateSafetyNumber(fp1, fp2) ==
    LET sorted == SortPair(fp1, fp2)
        combined == [i \in 1..16 |-> BitXor(sorted[1][i], sorted[2][i])]
        num == Uint32Mod(combined, 100000000)
        padded == PadStart(DecimalString(num), 8)
    IN  SubSeq(padded, 1, 4) \o <<"-">> \o SubSeq(padded, 5, Len(padded))

(***************************************************************************)
(* nacl.hash and its two truncations.                                      *)
(***************************************************************************)
Sha512(x) == [sha512 |-> x, bit |-> 0, len |-> 64]
Slice(h, n) == [h EXCEPT !.len = n]

fingerprintFromSignPK(signPKu8) == Slice(Sha512(signPKu8), 16)

messageIdFromCiphertext(ciphertext) == Slice(Sha512(ciphertext), 32)

(***************************************************************************)
(* nacl.sign.detached / nacl.sign.detached.verify, nacl.box.before /       *)
(* box.after / box.open.after.  A secret key names its public key.         *)
(***************************************************************************)
SecretOf(pk) == [of |-> pk]

SignDetached(m, sk) == [signer |-> sk.of, over |-> m, bit |-> 0, len |-> SIGNATURE_LEN]

SignVerify(m, sig, pk) ==
    /\ sig.bit = 0
    /\ sig.len = SIGNATURE_LEN
    /\ sig.signer = pk
    /\ sig.over = m

BoxBefore(pk, sk) == {pk, sk.of}

BoxAfter(m, n, k) ==
    [key |-> k, nonce |-> n, pt |-> m, bit |-> 0, len |-> m.len + BOX_OVERHEAD]

\* None is the null box.open.after returns when authentication fails
BoxOpenAfter(c, n, k) ==
    IF c.bit = 0 /\ c.key = k /\ c.nonce = n THEN Some(c.pt) ELSE None

(***************************************************************************)
(* Payload JSON.  A payload object is a function from its keys to their    *)
(* values; the text JSON.stringify writes parses back to the same object,  *)
(* and a text that is not JSON makes JSON.parse throw.                     *)
(***************************************************************************)
TooLarge == "<content of MAX_BYTES + 1 bytes>"
AtLimit == "<content of MAX_BYTES bytes>"

\* new Blob([content]).size
BlobSize(content) ==
    CASE content = TooLarge -> MAX_BYTES + 1
      [] content = AtLimit -> MAX_BYTES
      [] OTHER -> Len(content)

RECURSIVE Digits(_)
Digits(n) == IF n < 10 THEN 1 ELSE 1 + Digits(n \div 10)

RECURSIVE SumOver(_, _)
SumOver(f, S) ==
    IF S = {} THEN 0
    ELSE LET k == CHOOSE x \in S : TRUE IN f[k] + SumOver(f, S \ {k})

\* the length of JSON.stringify(obj): {"key":value,...}
JsonLen(obj) ==
    LET member == [k \in DOMAIN obj |->
                     Len(k) + 3
                     + (IF k \in {"v", "ts"} THEN Digits(obj[k]) ELSE BlobSize(obj[k]) + 2)]
    IN  2 + SumOver(member, DOMAIN obj) + (Cardinality(DOMAIN obj) - 1)

JsonStringify(obj) == [json |-> TRUE, obj |-> obj, len |-> JsonLen(obj)]
NotJson == [json |-> FALSE, obj |-> <<>>, len |-> 5]
JsonParses(text) == text.json
JsonParse(text) == text.obj

\* { ...a, ...b }: the keys of b win
Spread(a, b) ==
    [k \in DOMAIN a \cup DOMAIN b |-> IF k \in DOMAIN b THEN b[k] ELSE a[k]]

NoExtra == [k \in {} |-> 0]

(***************************************************************************)
(* calculateExpiration, isMessageValid.                                    *)
(***************************************************************************)
\* the default of the parameter is taken for undefined only; null is added
\* as the number 0
calculateExpiration(ts, ttlMs) ==
    ts + (IF ttlMs = None THEN DEFAULT_TTL_MS ELSE Get(ttlMs))

Abs(x) == IF x < 0 THEN -x ELSE x

\* the limits themselves rejected
isMessageValid_exclusive(message, strictMode, t) ==
    IF strictMode
    THEN Abs(2 * (t - Get(message.ts)) - Halves(message.ts)) < 2 * MAX_SKEW_MS
    ELSE IF IsSome(message.exp) THEN t < Get(message.exp)
    ELSE 2 * (t - Get(message.ts) - DEFAULT_TTL_MS) < Halves(message.ts)

\* message.ts may have one half beyond its integer part Get(message.ts), so
\* the comparisons with it are made on the doubles of both sides
isMessageValid(message, strictMode, t) ==
    IF strictMode
    THEN Abs(2 * (t - Get(message.ts)) - Halves(message.ts)) <= 2 * MAX_SKEW_MS
    ELSE IF IsSome(message.exp) THEN t <= Get(message.exp)
    ELSE 2 * (t - Get(message.ts) - DEFAULT_TTL_MS) <= Halves(message.ts)

(***************************************************************************)
(* buildSignBytes.                                                         *)
(***************************************************************************)
\* the nonce left out of the signed bytes
buildSignBytes_noNonce(senderSignPK, senderBoxPK, recipientBoxPK, ephPK, nonce, ts, ciphertext) ==
    << DOMAIN_TAG, senderSignPK, senderBoxPK, recipientBoxPK, ephPK,
       u64beFromNumber(ts), u32be(Num(ciphertext.len)), ciphertext >>

buildSignBytes(senderSignPK, senderBoxPK, recipientBoxPK, ephPK, nonce, ts, ciphertext) ==
    << DOMAIN_TAG, senderSignPK, senderBoxPK, recipientBoxPK, ephPK, nonce,
       u64beFromNumber(ts), u32be(Num(ciphertext.len)), ciphertext >>

(***************************************************************************)
(* encryptMessage.  q is the argument object; t is Date.now(); n numbers   *)
(* the call, so that the ephemeral key pair and the nonce are fresh.       *)
(***************************************************************************)
EphPK(n) == [id |-> "eph", bit |-> 0, len |-> BOX_PK_LEN, n |-> n]
FreshNonce(n) == [id |-> "nonce", bit |-> 0, len |-> NONCE_LEN, n |-> n]

\* the memory a secret key lies in: written by nacl.box.keyPair(), and
\* zeroed only if something overwrites it
KeyBuffer(sk) == [secretKey |-> sk, zeroed |-> FALSE]

encryptMessage(q, t, n) ==
    LET timestamp == IF Nullish(q.ts) THEN t ELSE Get(q.ts)
        expiration == calculateExpiration(timestamp, q.ttlMs)
        eph == EphPK(n)
        nonce == FreshNonce(n)
        payload == Spread([v |-> 1,
                           ts |-> timestamp,
                           type |-> IF IsSome(q.type) /\ Get(q.type) # "" THEN Get(q.type) ELSE "text",
                           content |-> q.content],
                          q.payloadExtra)
        payloadBytes == JsonStringify(payload)
        shared == BoxBefore(q.recipientBoxPK, SecretOf(eph))
        ciphertext == BoxAfter(payloadBytes, nonce, shared)
        msgId == messageIdFromCiphertext(ciphertext)
        signBytes == buildSignBytes(q.senderSignPK, q.senderBoxPK, q.recipientBoxPK,
                                    eph, nonce, Num(timestamp), ciphertext)
        signature == SignDetached(signBytes, q.senderSignSK)
    IN  IF BlobSize(q.content) > MAX_BYTES
        THEN [err |-> "Content too large", msg |-> None, ephSK |-> None]
        ELSE [err |-> "",
              ephSK |-> Some(KeyBuffer(SecretOf(eph))),
              msg |-> Some([v |-> 1,
                            kind |-> "dmesh-msg",
                            msgId |-> Some(encodeBase64(msgId)),
                            ts |-> Some(timestamp),
                            exp |-> Some(expiration),
                            senderSignPK |-> encodeBase64(q.senderSignPK),
                            senderBoxPK |-> encodeBase64(q.senderBoxPK),
                            recipientBoxPK |-> encodeBase64(q.recipientBoxPK),
                            ephPK |-> encodeBase64(eph),
                            nonce |-> encodeBase64(nonce),
                            ciphertext |-> encodeBase64(ciphertext),
                            signature |-> encodeBase64(signature)])]

(***************************************************************************)
(* The replay check handed to decryptMessage.  decryptMessage is           *)
(* synchronous and tests the truthiness of what replayCheck returns.       *)
(*   "none"  : no replayCheck supplied                                     *)
(*   "sync"  : a synchronous check-and-mark over the seen-set, returning   *)
(*             a boolean (the contract of the replayCheck parameter)       *)
(*   "store" : the store's checkAndMarkSeen, an async function: the call   *)
(*             returns a Promise and its body runs later (SeenGet, SeenPut)*)
(***************************************************************************)
makeSeenKey(msgId, senderFp) == <<msgId, senderFp>>

SeenKeys(store) == {e.seenKey : e \in store}

SyncCheckAndMark(seenKeys, msgId, senderFp) ==
    IF makeSeenKey(msgId, senderFp) \in seenKeys THEN "false" ELSE "true"

ReplayCheckReturn(p, msgId, senderFp) ==
    IF p.replayCheck = "store" THEN "promise"
    ELSE SyncCheckAndMark(p.seenKeys, msgId, senderFp)

\* JavaScript truthiness of the returned value: a Promise is an object
Truthy(v) == v \in {"true", "promise"}

(***************************************************************************)
(* decryptMessage, one operator per check, each handing over to the next.  *)
(* p is the argument object (with Date.now() as p.now and the keys of the  *)
(* seen-set as p.seenKeys); d holds the locals computed so far and the log *)
(* of the operations performed.  err = "" is a normal return.              *)
(***************************************************************************)
Did(d, op) == [d EXCEPT !.log = Append(@, op)]

Throw(d, e) ==
    [err |-> e, log |-> d.log, replay |-> d.replay, allowed |-> d.allowed, out |-> None]

\* JSON.parse(text) and the returned result
ParsePayload(p, d, plaintext) ==
    LET d1 == Did(d, "JSON.parse")
        payload == JsonParse(plaintext)
    IN  IF ~JsonParses(plaintext) THEN Throw(d1, "Payload JSON parse failed")
        ELSE [err |-> "",
              log |-> d1.log,
              replay |-> d1.replay,
              allowed |-> d1.allowed,
              out |-> Some([content |-> IF "content" \in DOMAIN payload
                                        THEN payload.content ELSE plaintext,
                            senderSignPK |-> d1.senderSignPK,
                            senderBoxPK |-> d1.senderBoxPK,
                            senderFp |-> d1.senderFp,
                            ts |-> ValueOf(d1.ts),
                            msgId |-> d1.msgIdB64,
                            type |-> IF "type" \in DOMAIN payload /\ payload.type # ""
                                     THEN payload.type ELSE "text",
                            payload |-> payload])]

\* nacl.box.before / nacl.box.open.after
OpenBox(p, d) ==
    LET d1 == Did(d, "box.open")
        shared == BoxBefore(d.ephPK, p.recipientBoxSK)
        plaintext == BoxOpenAfter(d.ciphertext, d.nonce, shared)
    IN  IF ~IsSome(plaintext) THEN Throw(d1, "Decryption failed")
        ELSE ParsePayload(p, d1, Get(plaintext))

\* if (replayCheck) { allowed = replayCheck(msgIdB64, senderFpB64) ... }
CheckReplay(p, d) ==
    IF p.replayCheck = "none" THEN OpenBox(p, d)
    ELSE LET senderFpB64 == encodeBase64(d.senderFp)
             allowed == ReplayCheckReturn(p, d.msgIdB64, senderFpB64)
             d1 == [Did(d, "replayCheck") EXCEPT
                        !.replay = Some(<<d.msgIdB64, senderFpB64>>),
                        !.allowed = allowed]
         IN  IF ~Truthy(allowed) THEN Throw(d1, "Replay detected")
             ELSE OpenBox(p, d1)

\* the result of the verification ignored
VerifySignature_unchecked(p, d) == CheckReplay(p, Did(d, "sign.verify"))

\* buildSignBytes and nacl.sign.detached.verify
VerifySignature(p, d) ==
    LET d1 == Did(d, "sign.verify")
        signBytes == buildSignBytes(d.senderSignPK, d.senderBoxPK, d.recipientBoxPKMsg,
                                    d.ephPK, d.nonce, Wide(d.ts), d.ciphertext)
    IN  IF ~SignVerify(signBytes, d.signature, d.senderSignPK)
        THEN Throw(d1, "Invalid signature")
        ELSE CheckReplay(p, d1)

\* only the signing key compared
CheckSenderKeys_signOnly(p, d) ==
    LET d1 == [Did(Did(d, "hash(senderSignPK)"), "senderKeys") EXCEPT
                   !.senderFp = fingerprintFromSignPK(d.senderSignPK)]
    IN  IF /\ IsSome(p.expectedSenderSignPK)
           /\ encodeBase64(Get(p.expectedSenderSignPK)) # p.message.senderSignPK
        THEN Throw(d1, "Sender signing key mismatch")
        ELSE VerifySignature(p, d1)

\* the sender fingerprint and the key consistency check
CheckSenderKeys(p, d) ==
    LET d1 == [Did(Did(d, "hash(senderSignPK)"), "senderKeys") EXCEPT
                   !.senderFp = fingerprintFromSignPK(d.senderSignPK)]
    IN  IF /\ IsSome(p.expectedSenderSignPK)
           /\ encodeBase64(Get(p.expectedSenderSignPK)) # p.message.senderSignPK
        THEN Throw(d1, "Sender signing key mismatch")
        ELSE IF /\ IsSome(p.expectedSenderBoxPK)
                /\ encodeBase64(Get(p.expectedSenderBoxPK)) # p.message.senderBoxPK
        THEN Throw(d1, "Sender box key mismatch")
        ELSE VerifySignature(p, d1)

\* the recipient binding check left out
CheckRecipient_absent(p, d) == CheckSenderKeys(p, Did(d, "recipient"))

\* recipient binding check
CheckRecipient(p, d) ==
    LET d1 == Did(d, "recipient")
    IN  IF encodeBase64(p.recipientBoxPK) # p.message.recipientBoxPK
        THEN Throw(d1, "Not intended for this recipient")
        ELSE CheckSenderKeys(p, d1)

\* compute the message ID and compare it with message.msgId when that is set
CheckMsgId(p, d) ==
    LET msgIdB64 == encodeBase64(messageIdFromCiphertext(d.ciphertext))
        d1 == [Did(Did(d, "hash(ciphertext)"), "msgId") EXCEPT !.msgIdB64 = msgIdB64]
    IN  IF /\ IsSome(p.message.msgId)
           /\ Get(p.message.msgId) # EmptyString
           /\ Get(p.message.msgId) # msgIdB64
        THEN Throw(d1, "Message ID mismatch")
        ELSE CheckRecipient(p, d1)

\* the message ID compared before the validity window
CheckValidity_afterMsgId(p, d) ==
    IF /\ IsSome(p.message.msgId)
       /\ Get(p.message.msgId) # encodeBase64(messageIdFromCiphertext(d.ciphertext))
    THEN Throw(Did(Did(d, "hash(ciphertext)"), "msgId"), "Message ID mismatch")
    ELSE LET d1 == Did(d, "isMessageValid")
         IN  IF ~isMessageValid(p.message, p.strictMode, p.now)
             THEN Throw(d1, IF p.strictMode THEN "Timestamp skew too large"
                            ELSE "Message expired")
             ELSE CheckMsgId(p, d1)

\* isMessageValid(message, options)
CheckValidity(p, d) ==
    LET d1 == Did(d, "isMessageValid")
    IN  IF ~isMessageValid(p.message, p.strictMode, p.now)
        THEN Throw(d1, IF p.strictMode THEN "Timestamp skew too large"
                       ELSE "Message expired")
        ELSE CheckMsgId(p, d1)

\* ts = Number(message.ts); Number.isFinite(ts)
CheckTs(p, d) ==
    LET d1 == Did(d, "ts")
        ts == Number(p.message.ts)
    IN  IF ~ts.finite THEN Throw(d1, "ts invalid")
        ELSE CheckValidity(p, [d1 EXCEPT !.ts = ts])

\* the six length checks
CheckLengths(p, d) ==
    LET d1 == Did(d, "lengths")
    IN  CASE d.senderSignPK.len # SIGN_PK_LEN -> Throw(d1, "senderSignPK length invalid")
          [] d.senderBoxPK.len # BOX_PK_LEN -> Throw(d1, "senderBoxPK length invalid")
          [] d.recipientBoxPKMsg.len # BOX_PK_LEN -> Throw(d1, "recipientBoxPK length invalid")
          [] d.ephPK.len # BOX_PK_LEN -> Throw(d1, "ephPK length invalid")
          [] d.nonce.len # NONCE_LEN -> Throw(d1, "nonce length invalid")
          [] d.signature.len # SIGNATURE_LEN -> Throw(d1, "signature length invalid")
          [] OTHER -> CheckTs(p, d1)

B64Fields ==
    <<"senderSignPK", "senderBoxPK", "recipientBoxPK", "ephPK", "nonce",
      "ciphertext", "signature">>

\* the seven decodeBase64 calls inside try / catch
DecodeFields(p, d) ==
    LET m == p.message
        d1 == Did(d, "decodeBase64")
    IN  IF \E i \in 1..Len(B64Fields) : ~Decodable(m[B64Fields[i]])
        THEN Throw(d1, "Base64 decode failed")
        ELSE CheckLengths(p, [d1 EXCEPT
                 !.senderSignPK = decodeBase64(m.senderSignPK),
                 !.senderBoxPK = decodeBase64(m.senderBoxPK),
                 !.recipientBoxPKMsg = decodeBase64(m.recipientBoxPK),
                 !.ephPK = decodeBase64(m.ephPK),
                 !.nonce = decodeBase64(m.nonce),
                 !.ciphertext = decodeBase64(m.ciphertext),
                 !.signature = decodeBase64(m.signature)])

NoLocals ==
    [log |-> <<>>, replay |-> None, allowed |-> "none",
     senderSignPK |-> None, senderBoxPK |-> None, recipientBoxPKMsg |-> None,
     ephPK |-> None, nonce |-> None, ciphertext |-> None, signature |-> None,
     ts |-> Number(None), msgIdB64 |-> None, senderFp |-> None]

decryptMessage(p) ==
    LET d1 == Did(NoLocals, "format")
    IN  IF p.message.v # 1 \/ p.message.kind # "dmesh-msg"
        THEN Throw(d1, "Invalid message format")
        ELSE DecodeFields(p, d1)

(***************************************************************************)
(* Parties and the inputs the actions draw from.                           *)
(***************************************************************************)
SignKey(who) == Bytes(<<who, "sign">>, SIGN_PK_LEN)
BoxKey(who) == Bytes(<<who, "box">>, BOX_PK_LEN)

EncryptArgs(sender, recipient, content, ts, ttlMs, type, extra) ==
    [content |-> content,
     senderSignPK |-> SignKey(sender), senderSignSK |-> SecretOf(SignKey(sender)),
     senderBoxPK |-> BoxKey(sender), senderBoxSK |-> SecretOf(BoxKey(sender)),
     recipientBoxPK |-> BoxKey(recipient),
     ts |-> ts, ttlMs |-> ttlMs, type |-> type, payloadExtra |-> extra]

\* the calls of the validation pipeline: one content, the clock inputs varied
PipelineArgs ==
    { EncryptArgs("alice", "bob", "Hello, Bob!", ts, ttl, None, NoExtra) :
        ts \in {None, Some(MAX_SKEW_MS + 1)}, ttl \in {None, Some(MAX_SKEW_MS)} }

\* the clock inputs of encryptMessage: left out, null, and numbers
ExpirationArgs ==
    { EncryptArgs("alice", "bob", "Hello, Bob!", ts, ttl, None, NoExtra) :
        ts \in {None, Null, Some(0), Some(MAX_SKEW_MS + 1)},
        ttl \in {None, Null, Some(0), Some(MAX_SKEW_MS)} }

\* the instants the clock visits
ClockPoints ==
    {0, MAX_SKEW_MS, MAX_SKEW_MS + 1, DEFAULT_TTL_MS, DEFAULT_TTL_MS + 1}

Recipients == {"bob", "eve"}

\* expectedSenderSignPK / expectedSenderBoxPK; None is null (trust on first use)
ExpectedKeys ==
    { [sign |-> None, box |-> None],
      [sign |-> Some(SignKey("alice")), box |-> Some(BoxKey("alice"))],
      [sign |-> Some(SignKey("eve")), box |-> None],
      [sign |-> None, box |-> Some(BoxKey("eve"))],
      [sign |-> Some(SignKey("alice")), box |-> Some(BoxKey("eve"))] }

(***************************************************************************)
(* What a relay can do to an envelope in transit.                          *)
(***************************************************************************)
TamperOps ==
    {[op |-> "flip", field |-> f] :
        f \in {"senderSignPK", "senderBoxPK", "recipientBoxPK", "ephPK", "nonce",
               "ciphertext", "signature", "ts", "msgId"}}
    \cup {[op |-> "recode", field |-> f] : f \in {"senderSignPK", "recipientBoxPK"}}
    \cup {[op |-> "garble", field |-> f] : f \in {"senderSignPK", "ciphertext"}}
    \cup {[op |-> "truncate", field |-> f] : f \in {"senderSignPK", "nonce", "signature"}}
    \cup {[op |-> "strip", field |-> f] : f \in {"ts", "exp", "msgId"}}
    \cup {[op |-> "expire", field |-> "exp"]}
    \cup {[op |-> "empty", field |-> "msgId"]}
    \cup {[op |-> "other", field |-> f] : f \in {"v", "kind"}}

FlipNumber(n) == IF n % 2 = 0 THEN n + 1 ELSE n - 1

ApplyTamper(t, m) ==
    CASE t.op = "flip" /\ t.field = "ts" ->
            IF IsSome(m.ts) THEN [m EXCEPT !.ts = Some(FlipNumber(Get(m.ts)))] ELSE m
      [] t.op = "flip" /\ t.field = "msgId" ->
            IF IsSome(m.msgId)
            THEN [m EXCEPT !.msgId = Some([Get(m.msgId) EXCEPT !.bytes = FlipBit(@)])]
            ELSE m
      [] t.op = "flip" /\ t.field \notin {"ts", "msgId"} ->
            [m EXCEPT ![t.field].bytes = FlipBit(@)]
      [] t.op = "recode" -> [m EXCEPT ![t.field] = Recode(@)]
      [] t.op = "garble" -> [m EXCEPT ![t.field] = Garble(@)]
      [] t.op = "truncate" -> [m EXCEPT ![t.field].bytes = Truncate(@)]
      [] t.op = "strip" -> [m EXCEPT ![t.field] = None]
      [] t.op = "expire" -> [m EXCEPT !.exp = Some(0)]
      [] t.op = "empty" -> [m EXCEPT !.msgId = Some(EmptyString)]
      [] t.op = "other" /\ t.field = "v" -> [m EXCEPT !.v = 2]
      [] t.op = "other" /\ t.field = "kind" -> [m EXCEPT !.kind = "dmesh-chunk"]

(***************************************************************************)
(* A sender that does not use encryptMessage: a validly signed v1.1        *)
(* envelope around a ciphertext that is no box for the recipient ("junk")  *)
(* or around a sealed text that is not JSON ("notjson").                   *)
(***************************************************************************)
craftEnvelope(what, sender, recipient, t, n) ==
    LET eph == EphPK(n)
        nonce == FreshNonce(n)
        shared == BoxBefore(BoxKey(recipient), SecretOf(eph))
        ciphertext == IF what = "junk"
                      THEN [key |-> {}, nonce |-> nonce, pt |-> NotJson, bit |-> 0,
                            len |-> BOX_OVERHEAD]
                      ELSE BoxAfter(NotJson, nonce, shared)
        signBytes == buildSignBytes(SignKey(sender), BoxKey(sender), BoxKey(recipient),
                                    eph, nonce, Num(t), ciphertext)
    IN  [v |-> 1,
         kind |-> "dmesh-msg",
         msgId |-> Some(encodeBase64(messageIdFromCiphertext(ciphertext))),
         ts |-> Some(t),
         exp |-> Some(calculateExpiration(t, None)),
         senderSignPK |-> encodeBase64(SignKey(sender)),
         senderBoxPK |-> encodeBase64(BoxKey(sender)),
         recipientBoxPK |-> encodeBase64(BoxKey(recipient)),
         ephPK |-> encodeBase64(eph),
         nonce |-> encodeBase64(nonce),
         ciphertext |-> encodeBase64(ciphertext),
         signature |-> encodeBase64(SignDetached(signBytes, SecretOf(SignKey(sender))))]

(***************************************************************************)
(* Chunking.  The serialized envelope (the UTF-8 bytes of JSON.stringify)  *)
(* is a sequence of bytes, each byte named by the envelope and its         *)
(* position, so that slices cut at the wrong place, or put together in the *)
(* wrong order, do not parse back to the envelope.                         *)
(***************************************************************************)
\* an envelope whose serialized form is n bytes long
EnvelopeOfSize(id, n) ==
    [id |-> id, size |-> n, ciphertext |-> encodeBase64(Bytes(<<"ciphertext", id>>, 20))]

Envelopes == {EnvelopeOfSize(id, n) : id \in {"E", "F"}, n \in 1..(MaxEnvLen + 1)}

\* naclUtil.decodeUTF8(JSON.stringify(msgJson))
Utf8Json(msgJson) == [i \in 1..msgJson.size |-> <<msgJson.id, i>>]

\* JSON.parse(naclUtil.encodeUTF8(msgBytes)); <<>> stands for a SyntaxError
ParseUtf8Json(msgBytes) ==
    IF \E e \in Envelopes : Utf8Json(e) = msgBytes
    THEN Some(CHOOSE e \in Envelopes : Utf8Json(e) = msgBytes)
    ELSE None

\* Math.ceil(a / b) for a >= 0 and b > 0
Ceil(a, b) == (a + b - 1) \div b

Min(a, b) == IF a < b THEN a ELSE b

\* the last, shorter chunk left out
chunkMessage_floor(msgJson, maxChunkSize) ==
    LET msgBytes == Utf8Json(msgJson)
        msgIdB64 == encodeBase64(messageIdFromCiphertext(decodeBase64(msgJson.ciphertext)))
        dataSize == maxChunkSize - CHUNK_OVERHEAD
    IN  IF dataSize <= 0
        THEN [err |-> "Max chunk size too small", chunks |-> <<>>]
        ELSE [err |-> "",
              chunks |->
                 [k \in 1..(Len(msgBytes) \div dataSize) |->
                     [v |-> 1, kind |-> "dmesh-chunk", msgId |-> msgIdB64,
                      seq |-> k - 1, total |-> Len(msgBytes) \div dataSize,
                      data |-> encodeBase64(SubSeq(msgBytes, (k - 1) * dataSize + 1,
                                                   k * dataSize))]]]

chunkMessage(msgJson, maxChunkSize) ==
    LET msgBytes == Utf8Json(msgJson)
        ciphertext == decodeBase64(msgJson.ciphertext)
        msgIdB64 == encodeBase64(messageIdFromCiphertext(ciphertext))
        dataSize == maxChunkSize - CHUNK_OVERHEAD
        total == Ceil(Len(msgBytes), dataSize)
    IN  IF dataSize <= 0
        THEN [err |-> "Max chunk size too small", chunks |-> <<>>]
        ELSE [err |-> "",
              chunks |->
                 [k \in 1..total |->
                     LET i == k - 1
                         start == i * dataSize
                         end == Min(start + dataSize, Len(msgBytes))
                     IN  [v |-> 1, kind |-> "dmesh-chunk", msgId |-> msgIdB64,
                          seq |-> i, total |-> total,
                          data |-> encodeBase64(SubSeq(msgBytes, start + 1, end))]]]

\* [...chunks].sort((a, b) => a.seq - b.seq): a stable sort
RECURSIVE InsertBySeq(_, _)
InsertBySeq(sorted, c) ==
    IF sorted = <<>> THEN <<c>>
    ELSE IF sorted[Len(sorted)].seq <= c.seq THEN Append(sorted, c)
    ELSE Append(InsertBySeq(SubSeq(sorted, 1, Len(sorted) - 1), c), sorted[Len(sorted)])

RECURSIVE SortBySeq(_)
SortBySeq(list) ==
    IF list = <<>> THEN <<>>
    ELSE InsertBySeq(SortBySeq(SubSeq(list, 1, Len(list) - 1)), list[Len(list)])

\* the decoded data of the chunks, one after the other
RECURSIVE ConcatData(_)
ConcatData(list) ==
    IF list = <<>> THEN <<>>
    ELSE decodeBase64(Head(list).data) \o ConcatData(Tail(list))

\* the chunks taken in the order they were supplied
reassembleChunks_unsorted(list) ==
    LET expectedTotal == list[1].total
        parsed == ParseUtf8Json(ConcatData(list))
    IN  IF Len(list) = 0 THEN [err |-> "No chunks provided", msg |-> None]
        ELSE IF Len(list) # expectedTotal THEN [err |-> "Incomplete chunks", msg |-> None]
        ELSE IF parsed = None THEN [err |-> "SyntaxError", msg |-> None]
        ELSE [err |-> "", msg |-> parsed]

reassembleChunks(list) ==
    LET sorted == SortBySeq(list)
        expectedTotal == sorted[1].total
        msgId == sorted[1].msgId
        parsed == ParseUtf8Json(ConcatData(sorted))
        Fail(e) == [err |-> e, msg |-> None]
    IN  IF Len(list) = 0 THEN Fail("No chunks provided")
        ELSE IF \E k \in DOMAIN list : list[k].kind # "dmesh-chunk"
        THEN Fail("Invalid chunk kind")
        ELSE IF Len(sorted) # expectedTotal THEN Fail("Incomplete chunks")
        ELSE IF \E k \in DOMAIN sorted : sorted[k].seq # k - 1
        THEN Fail("Missing chunk sequence")
        ELSE IF \E k \in DOMAIN sorted : sorted[k].msgId # msgId
        THEN Fail("Message ID mismatch across chunks")
        ELSE IF parsed = None THEN Fail("SyntaxError")
        ELSE [err |-> "", msg |-> parsed]

(***************************************************************************)
(* State and actions.                                                      *)
(***************************************************************************)
\* the fingerprint of a party, as the store keeps it (base64)
Fp(who) == encodeBase64(fingerprintFromSignPK(SignKey(who)))

ContactFps == {Fp("alice"), Fp("bob")}

\* the message IDs of the messages that arrive in chunks
ChunkedMessages == {"m1", "m2"}

NoCall == [called |-> FALSE]
NoOrigin == [kind |-> "none"]

\* the peers the node syncs with, by fingerprint
SyncPeers == {"bob", "eve"}

\* the transport objects there are: two QR transports and a file transport
TransportObjects == {"qr#1", "qr#2", "file#1"}

\* runMaintenance not running
NoMaintenance == [pc |-> "idle", runs |-> 0]

\* nothing chunked yet
NoChunking ==
    /\ cout = NoCall
    /\ pile = <<>>
    /\ edits = <<>>
    /\ rout = NoCall

InitStores ==
    /\ now = 0
    /\ env = None
    /\ origin = NoOrigin
    /\ hist = <<>>
    /\ seenDB = {}
    /\ seen = {}
    /\ tasks = <<>>
    /\ last = NoCall
    /\ expiredAt = None
    /\ contacts = [fp \in ContactFps |-> None]
    /\ firstKeys = [fp \in ContactFps |-> None]
    /\ chunks = {}
    /\ ctasks = <<>>
    /\ cret = NoCall
    /\ ncomplete = [m \in ChunkedMessages |-> 0]
    /\ submitted = {}
    /\ receivedChunks = <<>>
    /\ qlast = NoCall
    /\ scanned = {}
    /\ outbox = {}
    /\ forwarded = {}
    /\ sync = [p \in SyncPeers |-> "IDLE"]
    /\ myInv = NoCall
    /\ syncEvent = NoCall
    /\ mtask = NoMaintenance
    /\ removed = {}
    /\ accepted = <<>>
    /\ manager = [transports |-> <<>>, callbacks |-> FALSE]
    /\ wired = [t \in TransportObjects |-> None]
    /\ registered = <<>>
    /\ mlast = NoCall
    /\ fout = NoCall
    /\ bleTasks = <<>>
    /\ bleRx = [reassemblyBuffer |-> None, expectedChunks |-> 0]
    /\ bleEvents = <<>>
    /\ outboxStore = <<>>
    /\ otasks = <<>>
    /\ ocalls = <<>>

Init ==
    /\ InitStores
    /\ cin = NoCall
    /\ NoChunking
    /\ fin = NoCall

\* a sender calls encryptMessage and puts the envelope on the wire
EncryptMessage(Q) ==
    /\ origin = NoOrigin
    /\ \E q \in Q :
        LET r == encryptMessage(q, now, 1)
        IN  /\ env' = IF r.err = "" THEN r.msg ELSE env
            /\ origin' = [kind |-> "encrypt", q |-> q, err |-> r.err, at |-> now,
                          ephSK |-> r.ephSK]
    /\ hist' = <<>>
    /\ last' = NoCall
    /\ expiredAt' = None
    /\ UNCHANGED <<now, seenDB, seen, tasks, otherVars>>

CraftMessage ==
    /\ origin = NoOrigin
    /\ \E what \in {"junk", "notjson"} :
        /\ env' = Some(craftEnvelope(what, "eve", "bob", now, 1))
        /\ origin' = [kind |-> "craft", what |-> what]
    /\ hist' = <<>>
    /\ last' = NoCall
    /\ expiredAt' = None
    /\ UNCHANGED <<now, seenDB, seen, tasks, otherVars>>

Tamper ==
    /\ IsSome(env)
    /\ origin.kind = "encrypt"
    /\ Len(hist) < MaxTamper
    /\ \E t \in TamperOps :
        /\ ApplyTamper(t, Get(env)) # Get(env)
        /\ env' = Some(ApplyTamper(t, Get(env)))
        /\ hist' = Append(hist, t)
    /\ last' = NoCall
    /\ expiredAt' = None
    /\ UNCHANGED <<now, origin, seenDB, seen, tasks, otherVars>>

Tick ==
    /\ IsSome(env)
    /\ \E t \in ClockPoints :
        /\ t > now
        /\ \A u \in ClockPoints : ~(now < u /\ u < t)
        /\ now' = t
    /\ last' = NoCall
    /\ UNCHANGED <<env, origin, hist, seenDB, seen, tasks, expiredAt, otherVars>>

SeenEntry(key, t) ==
    [seenKey |-> key, msgId |-> key[1], senderFp |-> key[2], seenAt |-> t]

NewTask(key, caller) ==
    [key |-> key, pc |-> "get", existing |-> FALSE, ret |-> "pending", caller |-> caller]

\* a recipient calls decryptMessage on the envelope it received
DecryptMessage(ReplayChecks) ==
    /\ IsSome(env)
    /\ ~last.called
    /\ \E who \in Recipients, ek \in ExpectedKeys, rc \in ReplayChecks,
          strict \in BOOLEAN :
        LET p == [message |-> Get(env),
                  recipientBoxPK |-> BoxKey(who),
                  recipientBoxSK |-> SecretOf(BoxKey(who)),
                  expectedSenderSignPK |-> ek.sign,
                  expectedSenderBoxPK |-> ek.box,
                  replayCheck |-> rc,
                  strictMode |-> strict,
                  now |-> now,
                  seenKeys |-> IF rc = "store" THEN SeenKeys(seen) ELSE seenDB]
            r == decryptMessage(p)
        IN  /\ rc = "store" => Len(tasks) < MaxTasks
            /\ last' = [called |-> TRUE, p |-> p, r |-> r]
            /\ seenDB' = IF rc = "sync" /\ r.allowed = "true"
                         THEN seenDB \cup {makeSeenKey(Get(r.replay)[1], Get(r.replay)[2])}
                         ELSE seenDB
            /\ tasks' = IF rc = "store" /\ IsSome(r.replay)
                        THEN Append(tasks, NewTask(Get(r.replay), IF r.err = "" THEN "decrypt ok" ELSE "decrypt failed"))
                        ELSE tasks
            /\ expiredAt' = IF r.err = "Message expired" /\ ~IsSome(expiredAt)
                            THEN Some(now) ELSE expiredAt
    /\ UNCHANGED <<now, env, origin, hist, seen, otherVars>>

\* the caller has taken the result, or caught the error, of the last call
ReturnToCaller ==
    /\ last.called
    /\ last' = NoCall
    /\ UNCHANGED <<now, env, origin, hist, seenDB, seen, tasks, expiredAt, otherVars>>

Next ==
    \/ EncryptMessage(PipelineArgs)
    \/ CraftMessage
    \/ Tamper
    \/ Tick
    \/ DecryptMessage({"none", "sync"})
    \/ ReturnToCaller

Spec == Init /\ [][Next]_vars

(***************************************************************************)
(* The store's seen-set (IndexedDB object store "seen", keyPath seenKey).  *)
(* checkAndMarkSeen is an async function: the call runs up to its first    *)
(* await and returns a Promise; the read (idbGet) and the write (idbPut)   *)
(* are two transactions, each completing in a later turn of the event      *)
(* loop, so the steps of several calls interleave.                         *)
(***************************************************************************)
\* a pair that no envelope of the model carries
OtherSeenKey ==
    makeSeenKey(encodeBase64(Bytes("msg", 32)),
                encodeBase64(fingerprintFromSignPK(SignKey("alice"))))

\* the application calls checkAndMarkSeen(msgId, senderFp) itself
CallCheckAndMarkSeen ==
    /\ Len(tasks) < MaxTasks
    /\ \E key \in {OtherSeenKey} \cup
                   (IF IsSome(env)
                    THEN {makeSeenKey(encodeBase64(messageIdFromCiphertext(
                                          decodeBase64(Get(env).ciphertext))),
                                      encodeBase64(fingerprintFromSignPK(
                                          decodeBase64(Get(env).senderSignPK))))}
                    ELSE {}) :
        tasks' = Append(tasks, NewTask(key, "direct"))
    /\ UNCHANGED <<now, env, origin, hist, seenDB, seen, last, expiredAt, otherVars>>

\* const existing = await idbGet(STORES.SEEN, seenKey); if (existing) return false
SeenGet ==
    /\ \E i \in DOMAIN tasks :
        /\ tasks[i].pc = "get"
        /\ LET existing == tasks[i].key \in SeenKeys(seen)
           IN  tasks' = [tasks EXCEPT ![i] =
                            IF existing
                            THEN [@ EXCEPT !.pc = "done", !.existing = TRUE, !.ret = "false"]
                            ELSE [@ EXCEPT !.pc = "put"]]
    /\ UNCHANGED <<now, env, origin, hist, seenDB, seen, last, expiredAt, otherVars>>

\* await idbPut(STORES.SEEN, {seenKey, msgId, senderFp, seenAt}); return true
SeenPut ==
    /\ \E i \in DOMAIN tasks :
        /\ tasks[i].pc = "put"
        /\ seen' = {e \in seen : e.seenKey # tasks[i].key}
                       \cup {SeenEntry(tasks[i].key, now)}
        /\ tasks' = [tasks EXCEPT ![i] = [@ EXCEPT !.pc = "done", !.ret = "true"]]
    /\ UNCHANGED <<now, env, origin, hist, seenDB, last, expiredAt, otherVars>>

NextStore ==
    \/ EncryptMessage(PipelineArgs)
    \/ Tick
    \/ DecryptMessage({"store"})
    \/ ReturnToCaller
    \/ CallCheckAndMarkSeen
    \/ SeenGet
    \/ SeenPut

SpecStore == Init /\ [][NextStore]_vars

(***************************************************************************)
(* The clock of a node, whatever is on the wire.                           *)
(***************************************************************************)
ClockTick ==
    /\ \E t \in ClockPoints :
        /\ t > now
        /\ \A u \in ClockPoints : ~(now < u /\ u < t)
        /\ now' = t
    /\ UNCHANGED <<env, origin, hist, seenDB, seen, tasks, last, expiredAt, otherVars>>

(***************************************************************************)
(* Calls of pure functions: the arguments are there from the start, the    *)
(* call is one step.                                                       *)
(***************************************************************************)
InitPure(Inputs) ==
    /\ InitStores
    /\ cin = NoCall
    /\ NoChunking
    /\ fin \in Inputs

\* bytes a fingerprint is made of here
FpBytes == {0, 1, 255}

\* 16-byte fingerprints: four leading bytes of any value, and one of two tails
Fingerprints ==
    { lead \o [i \in 1..12 |-> tail] :
        lead \in [1..4 -> FpBytes], tail \in {0, 7} }

SafetyInputs ==
    { [called |-> TRUE, fp1 |-> a, fp2 |-> b] : a \in Fingerprints, b \in Fingerprints }

GenerateSafetyNumber ==
    /\ fin.called
    /\ ~fout.called
    /\ fout' = [called |-> TRUE,
                ret |-> generateSafetyNumber(fin.fp1, fin.fp2),
                swapped |-> generateSafetyNumber(fin.fp2, fin.fp1)]
    /\ UNCHANGED <<coreVars, besidePure, fin>>

SpecSafety == InitPure(SafetyInputs) /\ [][GenerateSafetyNumber]_vars

\* digits of the numbers handed to the encoders
WordDigits == {0, 1, 256, TwoTo16 - 1}

\* integers from 0 to 2^53, the last being 32 * 2^48
EncoderNumbers ==
    { [w |-> <<a, b, c, d>>, half |-> FALSE] :
        a \in {0, 1, 31}, b \in WordDigits, c \in WordDigits, d \in WordDigits }
    \cup { [w |-> <<32, 0, 0, 0>>, half |-> FALSE] }

EncoderInputs ==
    { [called |-> TRUE, n |-> n, m |-> m] : n \in EncoderNumbers, m \in EncoderNumbers }

\* the bytes signed for a message of alice to bob with the timestamp ts
SignBytesAt(ts) ==
    buildSignBytes(SignKey("alice"), BoxKey("alice"), BoxKey("bob"),
                   Bytes("eph", BOX_PK_LEN), Bytes("nonce", NONCE_LEN), ts,
                   Bytes("ciphertext", BOX_OVERHEAD))

Encode ==
    /\ fin.called
    /\ ~fout.called
    /\ fout' = [called |-> TRUE,
                u64n |-> u64beFromNumber(fin.n),
                u32n |-> u32be(fin.n),
                signN |-> SignBytesAt(fin.n),
                signM |-> SignBytesAt(fin.m)]
    /\ UNCHANGED <<coreVars, besidePure, fin>>

SpecEncoders == InitPure(EncoderInputs) /\ [][Encode]_vars

(***************************************************************************)
(* key-backup: encryptKeys and decryptKeys.  A backup is the object with   *)
(* its properties as optionals; data is the property that only a legacy    *)
(* backup has.  A result is the error thrown ("" for none), the log of     *)
(* the decoding, derivation and decryption steps that ran, and the value   *)
(* returned.                                                               *)
(***************************************************************************)
BACKUP_VERSION == 2

BackupResult(e, log, out) == [err |-> e, log |-> log, out |-> out]

\* the key a derivation gives for a password and a salt
DerivedKey(kdf, password, salt) == [kdf |-> kdf, password |-> password, salt |-> salt]

\* deriveKey: Argon2id if window.argon2 is there, PBKDF2 otherwise
deriveKey(password, salt, argon2) ==
    IF argon2
    THEN [key |-> DerivedKey("argon2id", password, salt), kdf |-> "argon2id"]
    ELSE [key |-> DerivedKey("pbkdf2", password, salt), kdf |-> "pbkdf2"]

MissingKeys(keys) ==
    \E f \in {"signPK", "signSK", "boxPK", "boxSK"} :
        ~IsSome(keys[f]) \/ keys[f] = Some(EmptyString)

\* n numbers the random salt and nonce
encryptKeys(keys, password, argon2, n) ==
    IF MissingKeys(keys) THEN BackupResult("Missing required keys", <<>>, None)
    ELSE IF password = "" THEN BackupResult("Password is required", <<>>, None)
    ELSE
    LET salt == Bytes(<<"salt", n>>, 16)
        nonce == Bytes(<<"backup nonce", n>>, NONCE_LEN)
        derived == deriveKey(password, salt, argon2)
        plaintext == [json |-> TRUE, obj |-> keys, len |-> 4 * 64]
        ciphertext == BoxAfter(plaintext, nonce, derived.key)
    IN  BackupResult("", <<"deriveKey", "secretbox">>,
            Some([version |-> Some(BACKUP_VERSION),
                  kdf |-> Some(derived.kdf),
                  kdfParams |-> Some(IF derived.kdf = "argon2id" THEN "ARGON2_CONFIG"
                                     ELSE "PBKDF2_CONFIG"),
                  salt |-> Some(encodeBase64(salt)),
                  nonce |-> Some(encodeBase64(nonce)),
                  ciphertext |-> Some(encodeBase64(ciphertext)),
                  data |-> None]))

\* !backup.version: undefined, null and 0 count as false
NoVersion(v) == v \in {None, Null, Some(0)}

\* the keys validated after decryption
ValidateKeys(keys, log) ==
    IF MissingKeys(keys)
    THEN BackupResult("Decrypted data is missing required keys", log, None)
    ELSE IF \/ decodeBase64(Get(keys.signPK)).len # 32
            \/ decodeBase64(Get(keys.signSK)).len # 64
            \/ decodeBase64(Get(keys.boxPK)).len # 32
            \/ decodeBase64(Get(keys.boxSK)).len # 32
    THEN BackupResult("Invalid key lengths in decrypted data", Append(log, "decodeBase64"),
                      None)
    ELSE BackupResult("", Append(log, "decodeBase64"), Some(keys))

OpenBackup(backup, key, log) ==
    LET log1 == Append(log, "secretbox.open")
        plaintext == BoxOpenAfter(decodeBase64(Get(backup.ciphertext)),
                                  decodeBase64(Get(backup.nonce)), key)
    IN  IF ~IsSome(plaintext)
        THEN BackupResult("Decryption failed - wrong password or corrupted backup", log1,
                          None)
        ELSE ValidateKeys(JsonParse(Get(plaintext)), Append(log1, "JSON.parse"))

DeriveBackupKey(backup, password, argon2, log) ==
    LET salt == decodeBase64(Get(backup.salt))
    IN  IF backup.kdf = Some("argon2id")
        THEN IF ~argon2 THEN BackupResult("Argon2id not available", log, None)
             ELSE OpenBackup(backup, DerivedKey("argon2id", password, salt),
                             Append(log, "deriveKeyArgon2"))
        ELSE IF backup.kdf = Some("pbkdf2")
        THEN OpenBackup(backup, DerivedKey("pbkdf2", password, salt),
                        Append(log, "deriveKeyPBKDF2"))
        ELSE BackupResult("Unknown KDF", log, None)

\* decodeBase64 throws on undefined and on text that is no base64
DecodeBackup(backup, password, argon2) ==
    LET log == <<"decodeBase64">>
    IN  IF \E f \in {"salt", "nonce", "ciphertext"} :
              ~IsSome(backup[f]) \/ ~Decodable(Get(backup[f]))
        THEN BackupResult("decodeBase64 threw", log, None)
        ELSE DeriveBackupKey(backup, password, argon2, log)

\* the version not compared
decryptKeys_anyVersion(b, password, argon2) ==
    IF ~IsSome(b) \/ NoVersion(Get(b).version)
    THEN BackupResult("Invalid backup format", <<>>, None)
    ELSE DecodeBackup(Get(b), password, argon2)

\* b is the backup, None for null or undefined
decryptKeys(b, password, argon2) ==
    IF ~IsSome(b) \/ NoVersion(Get(b).version)
    THEN BackupResult("Invalid backup format", <<>>, None)
    ELSE IF Get(b).version # Some(BACKUP_VERSION)
    THEN BackupResult("Unsupported backup version", <<>>, None)
    ELSE DecodeBackup(Get(b), password, argon2)

\* a user's four keys, base64
KeysOf(who) ==
    [signPK |-> Some(encodeBase64(SignKey(who))),
     signSK |-> Some(encodeBase64(Bytes(<<who, "sign secret">>, 64))),
     boxPK |-> Some(encodeBase64(BoxKey(who))),
     boxSK |-> Some(encodeBase64(Bytes(<<who, "box secret">>, 32)))]

KeySets ==
    { KeysOf("alice"),
      [KeysOf("alice") EXCEPT !.signSK = None],
      [KeysOf("alice") EXCEPT !.boxSK = Some(encodeBase64(Bytes(<<"alice", "short">>, 31)))] }

\* a backup in the legacy format: version 1 and the keys XORed with one byte
LegacyBackup ==
    [version |-> Some(1), kdf |-> None, kdfParams |-> None, salt |-> None,
     nonce |-> None, ciphertext |-> None,
     data |-> Some(encodeBase64(Bytes(<<"alice", "xor">>, 4 * 64)))]

\* values of version: missing, null, numbers, and the string "2"
VersionValues == {None, Null, Some(0), Some(1), Some(2), Some(3), <<2, "text">>}

\* backups written by encryptKeys with the password "pw", the legacy backup,
\* and what an edit of the file makes of them
Backups ==
    LET written ==
            { Get(encryptKeys(keys, "pw", argon2, 1).out) :
                keys \in {k \in KeySets : ~MissingKeys(k)}, argon2 \in BOOLEAN }
        Edits(b) ==
            { [b EXCEPT !.kdf = kdf, !.ciphertext = c] :
                kdf \in {b.kdf, Some("scrypt")},
                c \in {b.ciphertext,
                       Some([Get(b.ciphertext) EXCEPT !.bytes = FlipBit(@)]),
                       Some(Garble(Get(b.ciphertext)))} }
        edited == UNION { Edits(b) : b \in written }
    IN  { [b EXCEPT !.version = v] : b \in edited \cup {LegacyBackup}, v \in VersionValues }

BackupInputs ==
    { [called |-> TRUE, kind |-> "encryptKeys", keys |-> keys, password |-> pw,
       argon2 |-> argon2] :
        keys \in KeySets, pw \in {"", "pw"}, argon2 \in BOOLEAN }
    \cup
    { [called |-> TRUE, kind |-> "decryptKeys", backup |-> b, password |-> pw,
       argon2 |-> argon2] :
        b \in {None} \cup {Some(x) : x \in Backups}, pw \in {"pw", "other"},
        argon2 \in BOOLEAN }

EncryptKeys ==
    /\ fin.called
    /\ fin.kind = "encryptKeys"
    /\ ~fout.called
    /\ fout' = [called |-> TRUE, r |-> encryptKeys(fin.keys, fin.password, fin.argon2, 1)]
    /\ UNCHANGED <<coreVars, besidePure, fin>>

DecryptKeys ==
    /\ fin.called
    /\ fin.kind = "decryptKeys"
    /\ ~fout.called
    /\ fout' = [called |-> TRUE, r |-> decryptKeys(fin.backup, fin.password, fin.argon2)]
    /\ UNCHANGED <<coreVars, besidePure, fin>>

NextBackup == EncryptKeys \/ DecryptKeys

SpecBackup == InitPure(BackupInputs) /\ [][NextBackup]_vars

(***************************************************************************)
(* QRTransport.send, with nacl and naclUtil set, and the length of the     *)
(* strings it returns.  JSON.stringify of a chunk is                       *)
(*   {"v":1,"kind":"dmesh-chunk","msgId":"...","seq":N,"total":N,          *)
(*    "data":"..."}                                                        *)
(* which is 65 characters around the four values; all of them are ASCII.   *)
(***************************************************************************)
QR_MAX_CHUNK_SIZE == 2048
CHUNK_JSON_FRAME == 37 + 8 + 9 + 9 + 2

\* the length of naclUtil.encodeBase64 of n bytes
Base64Length(n) == 4 * Ceil(n, 3)

\* new Blob([JSON.stringify(c)]).size for a chunk c
ChunkJsonSize(c) ==
    CHUNK_JSON_FRAME + Base64Length(decodeBase64(c.msgId).len) + Digits(c.seq)
        + Digits(c.total) + Base64Length(Len(decodeBase64(c.data)))

\* QRTransport.send(message): the sizes of the strings returned
qrSend(message, maxChunkSize) ==
    LET msgSize == Len(Utf8Json(message))
        r == chunkMessage(message, maxChunkSize)
    IN  IF msgSize <= maxChunkSize - 100 THEN [err |-> "", sizes |-> <<msgSize>>]
        ELSE [err |-> r.err,
              sizes |-> [k \in DOMAIN r.chunks |-> ChunkJsonSize(r.chunks[k])]]

\* envelopes by serialized size, and values of maxChunkSize
QrSendInputs ==
    { [called |-> TRUE, message |-> EnvelopeOfSize("E", n), maxChunkSize |-> m] :
        n \in {1, 117, 118, 168, 1948, 1949, 2 * (QR_MAX_CHUNK_SIZE - CHUNK_OVERHEAD), 3000},
        m \in {CHUNK_OVERHEAD, CHUNK_OVERHEAD + 1, 267, 268, 300, 1200,
               QR_MAX_CHUNK_SIZE} }

QrSend ==
    /\ fin.called
    /\ ~fout.called
    /\ fout' = [called |-> TRUE,
                send |-> qrSend(fin.message, fin.maxChunkSize),
                chunked |-> LET r == chunkMessage(fin.message, fin.maxChunkSize)
                            IN  [k \in DOMAIN r.chunks |-> ChunkJsonSize(r.chunks[k])]]
    /\ UNCHANGED <<coreVars, besidePure, fin>>

SpecQrSend == InitPure(QrSendInputs) /\ [][QrSend]_vars

(***************************************************************************)
(* BLEManager.  The bytes of a JSON text are known by the text they belong *)
(* to and where they lie in it: Part(m, lo, hi) is data.slice(lo, hi) of   *)
(* the bytes of m.  A packet is its four header bytes and its payload.     *)
(* The link keeps the order of the writes, so a write and the              *)
(* characteristicvaluechanged event it causes at the receiver are one      *)
(* step.  The receiver has onMessageReceived and onError set.              *)
(***************************************************************************)
CHUNK_SIZE == 500
MSG_TYPE_DIRECT == 1
MSG_TYPE_IDENTITY == 5
BLE_MAX_MESSAGE == 150 * 1024

Part(m, lo, hi) == [of |-> m.id, lo |-> lo, hi |-> hi]

\* what a Uint8Array keeps of a number
Uint8(n) == n % 256

\* _chunkData(data)
chunkData(m) ==
    [i \in 1..Ceil(m.len, CHUNK_SIZE) |->
        Part(m, (i - 1) * CHUNK_SIZE, Min(i * CHUNK_SIZE, m.len))]

\* the packet of chunk i (from 0) of the message m
messagePacket(m, i) ==
    [msgType |-> MSG_TYPE_DIRECT, chunkIndex |-> Uint8(i),
     totalChunks |-> Uint8(Len(chunkData(m))), payload |-> chunkData(m)[i + 1]]

identityPacket(m) ==
    [msgType |-> MSG_TYPE_IDENTITY, chunkIndex |-> 0, totalChunks |-> 1,
     payload |-> Part(m, 0, m.len)]

\* buffer[index] = payload on an array: the array grows, with holes, if the
\* index is beyond its end
ArraySet(buffer, index, payload) ==
    [i \in 1..(IF index + 1 > Len(buffer) THEN index + 1 ELSE Len(buffer)) |->
        IF i = index + 1 THEN Some(payload)
        ELSE IF i <= Len(buffer) THEN buffer[i] ELSE None]

\* buffer.filter(Boolean).length
ReceivedCount(buffer) == Cardinality({i \in 1..Len(buffer) : IsSome(buffer[i])})

\* the payloads of a buffer without holes are the bytes of one whole text
RECURSIVE Contiguous(_, _, _)
Contiguous(buffer, i, at) ==
    IF i > Len(buffer) THEN TRUE
    ELSE /\ Get(buffer[i]).of = Get(buffer[1]).of
         /\ Get(buffer[i]).lo = at
         /\ Contiguous(buffer, i + 1, Get(buffer[i]).hi)

BleMessage(m, msgType) == [kind |-> "onMessageReceived", message |-> m, msgType |-> msgType]
BleError == [kind |-> "onError", code |-> "BLE_RECEIVE_FAILED"]

\* _handleIncomingData: the receiver's fields and what it calls; texts is
\* the set of the texts sent, by which a reassembled text is known to be
\* whole (JSON.parse throws on anything else)
handleIncomingData(rx, packet, texts) ==
    LET first == packet.chunkIndex = 0
        buffer0 == IF first THEN Some([i \in 1..packet.totalChunks |-> None])
                   ELSE rx.reassemblyBuffer
        expected == IF first THEN packet.totalChunks ELSE rx.expectedChunks
        buffer == IF IsSome(buffer0)
                  THEN Some(ArraySet(Get(buffer0), packet.chunkIndex, packet.payload))
                  ELSE None
        receivedCount == IF IsSome(buffer) THEN ReceivedCount(Get(buffer)) ELSE 0
        kept == [reassemblyBuffer |-> buffer, expectedChunks |-> expected]
        cleared == [reassemblyBuffer |-> None, expectedChunks |-> 0]
    IN  IF receivedCount # expected THEN [rx |-> kept, events |-> <<>>]
        \* _reassembleChunks(null), or result.set(undefined, offset) at a hole
        ELSE IF ~IsSome(buffer) \/ \E i \in 1..Len(Get(buffer)) : ~IsSome(Get(buffer)[i])
        THEN [rx |-> kept, events |-> <<BleError>>]
        ELSE LET whole == {m \in texts :
                             /\ Len(Get(buffer)) > 0
                             /\ Get(Get(buffer)[1]).of = m.id
                             /\ Contiguous(Get(buffer), 1, 0)
                             /\ Get(Get(buffer)[Len(Get(buffer))]).hi = m.len}
             IN  IF whole = {} THEN [rx |-> cleared, events |-> <<BleError>>]
                 ELSE [rx |-> cleared,
                       events |-> <<BleMessage(CHOOSE m \in whole : TRUE, packet.msgType)>>]

\* the texts whose sending has begun
TextsSent == {bleTasks[i].text : i \in DOMAIN bleTasks}

\* writeValue(packet), and the receiver's handler run on it
Write(packet, texts) ==
    LET r == handleIncomingData(bleRx, packet, texts)
    IN  /\ bleRx' = r.rx
        /\ bleEvents' = bleEvents \o r.events

\* sendMessage(message) is called: up to the first writeValue, or to the throw
SendMessage(Texts, concurrent, limit) ==
    /\ Len(bleTasks) < limit
    /\ concurrent \/ \A i \in DOMAIN bleTasks : bleTasks[i].pc # "write"
    /\ \E m \in Texts :
        /\ \A i \in DOMAIN bleTasks : bleTasks[i].text.id # m.id
        /\ IF m.len > BLE_MAX_MESSAGE
           THEN /\ bleTasks' = Append(bleTasks,
                                [call |-> "sendMessage", text |-> m, next |-> 0,
                                 pc |-> "BLE_SEND_FAILED"])
                /\ UNCHANGED <<bleRx, bleEvents>>
           ELSE /\ bleTasks' = Append(bleTasks,
                                [call |-> "sendMessage", text |-> m, next |-> 1,
                                 pc |-> IF Len(chunkData(m)) > 1 THEN "write" ELSE "done"])
                /\ Write(messagePacket(m, 0), TextsSent \cup {m})
    /\ UNCHANGED <<coreVars, besideBle>>

\* after the delay, the next writeValue of a sendMessage
WriteChunk ==
    /\ \E i \in DOMAIN bleTasks :
        /\ bleTasks[i].pc = "write"
        /\ LET t == bleTasks[i]
           IN  /\ bleTasks' = [bleTasks EXCEPT ![i] =
                      [t EXCEPT !.next = @ + 1,
                                !.pc = IF t.next + 1 < Len(chunkData(t.text))
                                       THEN "write" ELSE "done"]]
               /\ Write(messagePacket(t.text, t.next), TextsSent)
    /\ UNCHANGED <<coreVars, besideBle>>

\* sendIdentity(identity): its one writeValue
SendIdentity(Texts, limit) ==
    /\ Len(bleTasks) < limit
    /\ \E m \in Texts :
        /\ \A i \in DOMAIN bleTasks : bleTasks[i].text.id # m.id
        /\ bleTasks' = Append(bleTasks,
                            [call |-> "sendIdentity", text |-> m, next |-> 1, pc |-> "done"])
        /\ Write(identityPacket(m), TextsSent \cup {m})
    /\ UNCHANGED <<coreVars, besideBle>>

\* JSON texts by their length in bytes: one chunk, two, 255, 256, 257, the
\* largest accepted, and one byte more
JsonText(id, n) == [id |-> id, len |-> n]

MessageTexts ==
    { JsonText("m1", n) :
        n \in {1, CHUNK_SIZE, CHUNK_SIZE + 1, 255 * CHUNK_SIZE, 255 * CHUNK_SIZE + 1,
               256 * CHUNK_SIZE + 1, BLE_MAX_MESSAGE, BLE_MAX_MESSAGE + 1} }

\* one sendMessage on a connection, its chunks arriving in the order sent
NextBle ==
    \/ SendMessage(MessageTexts, FALSE, 1)
    \/ WriteChunk

SpecBle == Init /\ [][NextBle]_vars

\* the most calls made on one connection
MaxSends == 2

\* messages of two and of three chunks, and an identity
RacingTexts ==
    {JsonText(id, n) : id \in {"m1", "m2"}, n \in {CHUNK_SIZE + 1, 2 * CHUNK_SIZE + 1}}
IdentityTexts == {JsonText("identity", 200)}

\* calls made while earlier ones are still writing
NextBleRace ==
    \/ SendMessage(RacingTexts, TRUE, MaxSends)
    \/ SendIdentity(IdentityTexts, MaxSends)
    \/ WriteChunk

SpecBleRace == Init /\ [][NextBleRace]_vars

(***************************************************************************)
(* errors.js: createError and wrapError.  A message is a string, and       *)
(* includes is the search for a substring.                                 *)
(***************************************************************************)
ErrorCategory ==
    [CRYPTO |-> "CRYPTO", VALIDATION |-> "VALIDATION", STORAGE |-> "STORAGE",
     NETWORK |-> "NETWORK", FORMAT |-> "FORMAT", SECURITY |-> "SECURITY"]

ErrorCode ==
    [DECRYPTION_FAILED |-> "DECRYPTION_FAILED",
     SIGNATURE_INVALID |-> "SIGNATURE_INVALID",
     KEY_GENERATION_FAILED |-> "KEY_GENERATION_FAILED",
     CONTENT_TOO_LARGE |-> "CONTENT_TOO_LARGE",
     TIMESTAMP_SKEW |-> "TIMESTAMP_SKEW",
     RECIPIENT_MISMATCH |-> "RECIPIENT_MISMATCH",
     SENDER_KEY_MISMATCH |-> "SENDER_KEY_MISMATCH",
     INVALID_KEY_LENGTH |-> "INVALID_KEY_LENGTH",
     INVALID_MESSAGE_FORMAT |-> "INVALID_MESSAGE_FORMAT",
     BASE64_DECODE_FAILED |-> "BASE64_DECODE_FAILED",
     JSON_PARSE_FAILED |-> "JSON_PARSE_FAILED",
     REPLAY_DETECTED |-> "REPLAY_DETECTED",
     UNKNOWN_SENDER |-> "UNKNOWN_SENDER"]

categoryMap ==
    [DECRYPTION_FAILED |-> ErrorCategory.CRYPTO,
     SIGNATURE_INVALID |-> ErrorCategory.SECURITY,
     KEY_GENERATION_FAILED |-> ErrorCategory.CRYPTO,
     CONTENT_TOO_LARGE |-> ErrorCategory.VALIDATION,
     TIMESTAMP_SKEW |-> ErrorCategory.VALIDATION,
     RECIPIENT_MISMATCH |-> ErrorCategory.VALIDATION,
     SENDER_KEY_MISMATCH |-> ErrorCategory.SECURITY,
     INVALID_KEY_LENGTH |-> ErrorCategory.VALIDATION,
     INVALID_MESSAGE_FORMAT |-> ErrorCategory.FORMAT,
     BASE64_DECODE_FAILED |-> ErrorCategory.FORMAT,
     JSON_PARSE_FAILED |-> ErrorCategory.FORMAT,
     REPLAY_DETECTED |-> ErrorCategory.SECURITY,
     UNKNOWN_SENDER |-> ErrorCategory.SECURITY]

createError(code, details) ==
    [code |-> code,
     category |-> IF code \in DOMAIN categoryMap THEN categoryMap[code]
                  ELSE ErrorCategory.CRYPTO,
     details |-> details]

\* msg.includes(part)
Includes(msg, part) ==
    \E i \in 1..(Len(msg) - Len(part) + 1) : SubSeq(msg, i, i + Len(part) - 1) = part

\* wrapError(error, defaultCode) for an error that is not a LifelineMeshError:
\* msg is error.message
wrapError(msg, defaultCode) ==
    IF Includes(msg, "Content too large")
    THEN createError(ErrorCode.CONTENT_TOO_LARGE, msg)
    ELSE IF Includes(msg, "Timestamp skew")
    THEN createError(ErrorCode.TIMESTAMP_SKEW, msg)
    ELSE IF Includes(msg, "Invalid signature")
    THEN createError(ErrorCode.SIGNATURE_INVALID, msg)
    ELSE IF Includes(msg, "Replay detected")
    THEN createError(ErrorCode.REPLAY_DETECTED, msg)
    ELSE IF Includes(msg, "Decryption failed")
    THEN createError(ErrorCode.DECRYPTION_FAILED, msg)
    ELSE IF Includes(msg, "Not intended for this recipient")
    THEN createError(ErrorCode.RECIPIENT_MISMATCH, msg)
    ELSE IF Includes(msg, "Sender") /\ Includes(msg, "mismatch")
    THEN createError(ErrorCode.SENDER_KEY_MISMATCH, msg)
    ELSE IF Includes(msg, "Invalid message format") \/ Includes(msg, "Invalid format")
    THEN createError(ErrorCode.INVALID_MESSAGE_FORMAT, msg)
    ELSE IF Includes(msg, "Base64 decode failed")
    THEN createError(ErrorCode.BASE64_DECODE_FAILED, msg)
    ELSE IF Includes(msg, "JSON parse failed") \/ Includes(msg, "Payload JSON")
    THEN createError(ErrorCode.JSON_PARSE_FAILED, msg)
    ELSE createError(defaultCode, msg)

\* encryptMessage called at any time, with any of the clock inputs
NextExp ==
    \/ ClockTick
    \/ EncryptMessage(ExpirationArgs)
    \/ DecryptMessage({"none"})
    \/ ReturnToCaller

SpecExp == Init /\ [][NextExp]_vars

(***************************************************************************)
(* A relay that puts another value in the place of an envelope's ts.       *)
(***************************************************************************)
\* what the relay writes over the timestamp n
TsValues(n) == {None, Null, Text, NotANumber, Infinite, Half(n), Half(n + 1)}

SubstituteTs ==
    /\ IsSome(env)
    /\ origin.kind = "encrypt"
    /\ hist = <<>>
    /\ \E v \in TsValues(Get(Get(env).ts)) :
        /\ env' = Some([Get(env) EXCEPT !.ts = v])
        /\ hist' = <<[op |-> "substitute", field |-> "ts"]>>
    /\ last' = NoCall
    /\ expiredAt' = None
    /\ UNCHANGED <<now, origin, seenDB, seen, tasks, otherVars>>

NextTs ==
    \/ ClockTick
    \/ EncryptMessage(ExpirationArgs)
    \/ SubstituteTs
    \/ DecryptMessage({"none"})
    \/ ReturnToCaller

SpecTs == Init /\ [][NextTs]_vars

(***************************************************************************)
(* Contacts (object store STORE_CONTACTS, keyPath fp).  An entry is the    *)
(* stored object, a function from its property names.                      *)
(***************************************************************************)
VERIFICATION_STATUS ==
    [UNVERIFIED |-> "unverified", VERIFIED |-> "verified", COMPROMISED |-> "compromised"]

\* the contact objects handed to saveContact; verified is optional
ContactInputs ==
    LET base == { [fp |-> fp, name |-> "Alice",
                   signPK |-> encodeBase64(SignKey(s)),
                   boxPK |-> encodeBase64(BoxKey(b))] :
                    fp \in ContactFps, s \in {"alice", "eve"}, b \in {"alice", "eve"} }
    IN  base \cup {Spread(c, [verified |-> VERIFICATION_STATUS.VERIFIED]) : c \in base}

\* existing?.key || fallback, for a property that holds a string / a number
OrElse(obj, key, falsy, fallback) ==
    IF IsSome(obj) /\ key \in DOMAIN Get(obj) /\ Get(obj)[key] # falsy
    THEN Get(obj)[key] ELSE fallback

\* saveContact(contact)
SaveContact ==
    /\ \E contact \in ContactInputs :
        LET existing == contacts[contact.fp]
            entry == Spread(Spread(IF IsSome(existing) THEN Get(existing) ELSE NoExtra,
                                   contact),
                            [verified |-> IF "verified" \in DOMAIN contact
                                          THEN contact.verified
                                          ELSE OrElse(existing, "verified", "",
                                                      VERIFICATION_STATUS.UNVERIFIED),
                             addedAt |-> OrElse(existing, "addedAt", 0, now),
                             updatedAt |-> now])
        IN  /\ contacts' = [contacts EXCEPT ![contact.fp] = Some(entry)]
            /\ firstKeys' = IF IsSome(existing) THEN firstKeys
                            ELSE [firstKeys EXCEPT ![contact.fp] =
                                     Some(<<contact.signPK, contact.boxPK>>)]
    /\ UNCHANGED <<coreVars, besideContacts>>

\* verifyContact(fp)
VerifyContact ==
    /\ \E fp \in ContactFps :
        contacts' = IF IsSome(contacts[fp])
                    THEN [contacts EXCEPT ![fp] =
                            Some(Spread(Get(@), [verified |-> VERIFICATION_STATUS.VERIFIED,
                                                 verifiedAt |-> now]))]
                    ELSE contacts
    /\ UNCHANGED <<coreVars, firstKeys, besideContacts>>

\* markContactCompromised(fp, reason)
MarkContactCompromised ==
    /\ \E fp \in ContactFps, reason \in {"device lost"} :
        contacts' = IF IsSome(contacts[fp])
                    THEN [contacts EXCEPT ![fp] =
                            Some(Spread(Get(@), [verified |-> VERIFICATION_STATUS.COMPROMISED,
                                                 compromisedAt |-> now,
                                                 compromisedReason |-> reason]))]
                    ELSE contacts
    /\ UNCHANGED <<coreVars, firstKeys, besideContacts>>

\* deleteContact(fp)
DeleteContact ==
    /\ \E fp \in ContactFps :
        /\ contacts' = [contacts EXCEPT ![fp] = None]
        /\ firstKeys' = [firstKeys EXCEPT ![fp] = None]
    /\ UNCHANGED <<coreVars, besideContacts>>

NextContacts ==
    \/ SaveContact
    \/ VerifyContact
    \/ MarkContactCompromised
    \/ DeleteContact

SpecContacts == Init /\ [][NextContacts]_vars

(***************************************************************************)
(* Partial chunks (object store STORE_CHUNKS, keyPath chunkKey, index on   *)
(* msgId).  storeChunk is an async function: its put, its index read and   *)
(* each of its deletes is a transaction of its own, completing in a later  *)
(* turn of the event loop.  An index read returns the entries in the order *)
(* of their primary keys, the strings `${msgId}:${seq}`.                   *)
(***************************************************************************)
\* the order of two strings of digits, code unit by code unit
RECURSIVE StringLess(_, _)
StringLess(a, b) ==
    IF a = <<>> THEN b # <<>>
    ELSE IF b = <<>> THEN FALSE
    ELSE IF Head(a) # Head(b) THEN Head(a) < Head(b)
    ELSE StringLess(Tail(a), Tail(b))

\* `${chunk.msgId}:${chunk.seq}`
ChunkKey(msgId, seq) == <<msgId, DecimalString(seq)>>

\* index.getAll(msgId): the entries of one message, by ascending chunkKey
RECURSIVE InKeyOrder(_)
InKeyOrder(S) ==
    IF S = {} THEN <<>>
    ELSE LET first == CHOOSE e \in S :
                         \A f \in S \ {e} : StringLess(e.chunkKey[2], f.chunkKey[2])
         IN  <<first>> \o InKeyOrder(S \ {first})

idbGetByIndex(store, msgId) == InKeyOrder({e \in store : e.msgId = msgId})

\* getPendingChunks(msgId)
getPendingChunks(msgId) == idbGetByIndex(chunks, msgId)

ChunkOf(msgId, seq, total) ==
    [v |-> 1, kind |-> "dmesh-chunk", msgId |-> msgId, seq |-> seq, total |-> total,
     data |-> <<"data", msgId, seq>>]

\* a caller hands a chunk to storeChunk
StoreChunk(Inputs, inFlight, once) ==
    /\ Len(ctasks) < inFlight
    /\ \E chunk \in Inputs :
        /\ ncomplete[chunk.msgId] < MaxSets
        /\ once => chunk \notin submitted
        /\ ctasks' = Append(ctasks, [chunk |-> chunk, pc |-> "put", all |-> <<>>, k |-> 1])
        /\ submitted' = submitted \cup {chunk}
    /\ cret' = NoCall
    /\ UNCHANGED <<coreVars, besideChunks, chunks, ncomplete>>

Without(tasks_, i) == SubSeq(tasks_, 1, i - 1) \o SubSeq(tasks_, i + 1, Len(tasks_))

\* await idbPut(STORE_CHUNKS, {chunkKey, msgId, seq, total, data, receivedAt})
ChunkPut ==
    /\ \E i \in DOMAIN ctasks :
        LET chunk == ctasks[i].chunk
            chunkKey == ChunkKey(chunk.msgId, chunk.seq)
        IN  /\ ctasks[i].pc = "put"
            /\ chunks' = {e \in chunks : e.chunkKey # chunkKey}
                             \cup {[chunkKey |-> chunkKey, msgId |-> chunk.msgId,
                                    seq |-> chunk.seq, total |-> chunk.total,
                                    data |-> chunk.data, receivedAt |-> now]}
            /\ ctasks' = [ctasks EXCEPT ![i].pc = "get"]
    /\ UNCHANGED <<coreVars, besideChunks, cret, ncomplete, submitted>>

\* allChunks = await idbGetByIndex(...); if the count is not chunk.total, return null
ChunkGet ==
    /\ \E i \in DOMAIN ctasks :
        LET chunk == ctasks[i].chunk
            allChunks == idbGetByIndex(chunks, chunk.msgId)
        IN  /\ ctasks[i].pc = "get"
            /\ IF Len(allChunks) = chunk.total
               THEN /\ ctasks' = [ctasks EXCEPT ![i].pc = "del", ![i].all = allChunks]
                    /\ UNCHANGED cret
               ELSE /\ ctasks' = Without(ctasks, i)
                    /\ cret' = [called |-> TRUE, chunk |-> chunk, ret |-> None]
    /\ UNCHANGED <<coreVars, besideChunks, chunks, ncomplete, submitted>>

\* for (const c of allChunks) await idbDel(STORE_CHUNKS, c.chunkKey): one
\* delete; after the last one, the return of allChunks.map(...)
ChunkDel ==
    /\ \E i \in DOMAIN ctasks :
        LET t == ctasks[i]
            result == [k \in DOMAIN t.all |->
                         [v |-> 1, kind |-> "dmesh-chunk", msgId |-> t.all[k].msgId,
                          seq |-> t.all[k].seq, total |-> t.all[k].total,
                          data |-> t.all[k].data]]
        IN  /\ t.pc = "del"
            /\ chunks' = {e \in chunks : e.chunkKey # t.all[t.k].chunkKey}
            /\ IF t.k < Len(t.all)
               THEN /\ ctasks' = [ctasks EXCEPT ![i].k = @ + 1]
                    /\ UNCHANGED <<cret, ncomplete>>
               ELSE /\ ctasks' = Without(ctasks, i)
                    /\ cret' = [called |-> TRUE, chunk |-> t.chunk, ret |-> Some(result)]
                    /\ ncomplete' = [ncomplete EXCEPT ![t.chunk.msgId] = @ + 1]
    /\ UNCHANGED <<coreVars, besideChunks, submitted>>

\* chunks as they arrive from the network: repeated, out of range, and
\* disagreeing on total
ArrivingChunks ==
    {ChunkOf("m1", seq, total) : seq \in 0..2, total \in {2, 3}}

\* storeChunk calls awaited one after the other
NextChunks ==
    \/ StoreChunk(ArrivingChunks, 1, FALSE)
    \/ ChunkPut
    \/ ChunkGet
    \/ ChunkDel

SpecChunks == Init /\ [][NextChunks]_vars

\* the two chunks of one message, each handed once to storeChunk, the calls
\* not awaiting each other
RacingChunks == {ChunkOf("m1", seq, 2) : seq \in 0..1}

NextChunkRace ==
    \/ StoreChunk(RacingChunks \cup {ChunkOf("m2", 0, 1)}, MaxTasks, TRUE)
    \/ ChunkPut
    \/ ChunkGet
    \/ ChunkDel

SpecChunkRace == Init /\ [][NextChunkRace]_vars

\* the chunks of one message of LongTotal chunks, each handed once to
\* storeChunk, in any order, the calls awaited one after the other
LongTotal == 11
LongChunks == {ChunkOf("m1", seq, LongTotal) : seq \in 0..(LongTotal - 1)}

NextChunkOrder ==
    \/ StoreChunk(LongChunks, 1, TRUE)
    \/ ChunkPut
    \/ ChunkGet
    \/ ChunkDel

SpecChunkOrder == Init /\ [][NextChunkOrder]_vars

(***************************************************************************)
(* chunkMessage and reassembleChunks, applied to the arguments the initial *)
(* state draws; between the two, the link may deliver the chunks in        *)
(* another order, lose or repeat one, or change a field of one.            *)
(***************************************************************************)
ChunkerInputs ==
    {[called |-> TRUE, msgJson |-> EnvelopeOfSize("E", n), maxChunkSize |-> CHUNK_OVERHEAD + k] :
        n \in 1..MaxEnvLen, k \in -1..3}

InitChunker ==
    /\ InitStores
    /\ cin \in ChunkerInputs
    /\ NoChunking
    /\ fin = NoCall

ChunkMessage ==
    /\ cin.called
    /\ ~cout.called
    /\ LET r == chunkMessage(cin.msgJson, cin.maxChunkSize)
       IN  /\ cout' = [called |-> TRUE, err |-> r.err, chunks |-> r.chunks]
           /\ pile' = r.chunks
    /\ UNCHANGED <<coreVars, besideChunker, cin, edits, rout>>

\* the chunks arrive in another order
Shuffle ==
    /\ cout.called
    /\ edits = <<>>
    /\ \E f \in Permutations(DOMAIN pile) :
        /\ [k \in DOMAIN pile |-> pile[f[k]]] # pile
        /\ pile' = [k \in DOMAIN pile |-> pile[f[k]]]
    /\ rout' = NoCall
    /\ UNCHANGED <<coreVars, besideChunker, cin, cout, edits>>

ForeignMsgId == encodeBase64(messageIdFromCiphertext(decodeBase64(EnvelopeOfSize("F", 1).ciphertext)))

EditKinds == {"lose", "repeat", "msgId", "total", "seq"}

ApplyEdit(kind, k, list) ==
    CASE kind = "lose" -> Without(list, k)
      [] kind = "repeat" -> Append(list, list[k])
      [] kind = "msgId" -> [list EXCEPT ![k].msgId = ForeignMsgId]
      [] kind = "total" -> [list EXCEPT ![k].total = @ + 1]
      [] kind = "seq" -> [list EXCEPT ![k].seq = @ + 1]

\* the link loses, repeats or changes a chunk
EditChunks ==
    /\ cout.called
    /\ Len(edits) < MaxEdits
    /\ \E kind \in EditKinds, k \in DOMAIN pile :
        /\ pile' = ApplyEdit(kind, k, pile)
        /\ edits' = Append(edits, kind)
    /\ rout' = NoCall
    /\ UNCHANGED <<coreVars, besideChunker, cin, cout>>

\* the receiver calls reassembleChunks on what it holds
ReassembleChunks ==
    /\ cout.called
    /\ ~rout.called
    /\ LET r == reassembleChunks(pile)
       IN  rout' = [called |-> TRUE, err |-> r.err, msg |-> r.msg]
    /\ UNCHANGED <<coreVars, besideChunker, cin, cout, pile, edits>>

NextChunker ==
    \/ ChunkMessage
    \/ Shuffle
    \/ EditChunks
    \/ ReassembleChunks

SpecChunker == InitChunker /\ [][NextChunker]_vars

(***************************************************************************)
(* Database maintenance: runMaintenance awaits cleanupSeen() and then      *)
(* cleanupOldChunks(), each a snapshot read (idbGetAll) followed by one    *)
(* awaited idbDel per old entry of the snapshot.  The clock of this        *)
(* specification counts seconds: 30 days in milliseconds is more than the  *)
(* integers of the model checker hold, and the code's arithmetic on        *)
(* timestamps (doubles) is exact either way.                               *)
(***************************************************************************)
\* SEEN_RETENTION_MS, in seconds
SEEN_RETENTION_S == 30 * 24 * 60 * 60

\* the default maxAgeMs of cleanupOldChunks, in seconds
CHUNK_MAX_AGE_S == 24 * 60 * 60

\* the instants the store's clock visits
StoreClockPoints == {0, 1, CHUNK_MAX_AGE_S + 1, SEEN_RETENTION_S + 1}

\* a call of the store that has not returned yet
InFlight ==
    \/ mtask.pc # "idle"
    \/ ctasks # <<>>
    \/ \E i \in DOMAIN tasks : tasks[i].pc # "done"

\* a second can pass at any moment; no call stays in flight for a day
StoreClockTick ==
    /\ \E t \in StoreClockPoints :
        /\ t > now
        /\ \A u \in StoreClockPoints : ~(now < u /\ u < t)
        /\ t - now > 1 => ~InFlight
        /\ now' = t
    /\ UNCHANGED <<env, origin, hist, seenDB, seen, tasks, last, expiredAt, otherVars>>

\* the keys of the entries of a snapshot that the loop deletes, in the
\* snapshot's order
RECURSIVE OldKeys(_, _, _, _)
OldKeys(all, stamp, key, cutoff) ==
    IF all = <<>> THEN <<>>
    ELSE (IF Head(all)[stamp] < cutoff THEN <<Head(all)[key]>> ELSE <<>>)
             \o OldKeys(Tail(all), stamp, key, cutoff)

\* idbGetAll(STORE_SEEN), idbGetAll(STORE_CHUNKS): the entries by primary key
RECURSIVE idbGetAllSeen(_)
idbGetAllSeen(store) ==
    IF store = {} THEN <<>>
    ELSE LET first == CHOOSE e \in store : TRUE
         IN  <<first>> \o idbGetAllSeen(store \ {first})

idbGetAllChunks(store) == InKeyOrder(store)

\* runMaintenance() is called: cleanupSeen() takes its cutoff and asks for
\* the snapshot
RunMaintenance ==
    /\ mtask.pc = "idle"
    /\ mtask.runs < MaxRuns
    /\ mtask' = [pc |-> "seen.getAll", runs |-> mtask.runs + 1,
                 seenCutoff |-> now - SEEN_RETENTION_S]
    /\ removed' = {}
    /\ UNCHANGED <<coreVars, chunkVars, accepted, besideMaint>>

\* cleanupOldChunks() is entered as soon as cleanupSeen() is through
EnterCleanupOldChunks(t) ==
    [pc |-> "chunks.getAll", runs |-> t.runs, seenCutoff |-> t.seenCutoff,
     chunkCutoff |-> now - CHUNK_MAX_AGE_S]

\* const all = await idbGetAll(STORE_SEEN)
SeenGetAll ==
    /\ mtask.pc = "seen.getAll"
    /\ LET old == OldKeys(idbGetAllSeen(seen), "seenAt", "seenKey", mtask.seenCutoff)
       IN  mtask' = IF old = <<>> THEN EnterCleanupOldChunks(mtask)
                    ELSE [mtask EXCEPT !.pc = "seen.del"] @@ [todo |-> old]
    /\ UNCHANGED <<coreVars, chunkVars, removed, accepted, besideMaint>>

\* await idbDel(STORE_SEEN, entry.seenKey)
SeenDel ==
    /\ mtask.pc = "seen.del"
    /\ seen' = {e \in seen : e.seenKey # Head(mtask.todo)}
    /\ removed' = removed \cup
                   {[store |-> "seen", stamp |-> e.seenAt] :
                       e \in {x \in seen : x.seenKey = Head(mtask.todo)}}
    /\ mtask' = IF Tail(mtask.todo) = <<>>
                THEN EnterCleanupOldChunks(mtask)
                ELSE [mtask EXCEPT !.todo = Tail(@)]
    /\ UNCHANGED <<now, env, origin, hist, seenDB, tasks, last, expiredAt,
                   chunkVars, accepted, besideMaint>>

\* runMaintenance is through
MaintenanceDone(t) ==
    [pc |-> "idle", runs |-> t.runs, seenCutoff |-> t.seenCutoff,
     chunkCutoff |-> t.chunkCutoff]

\* const all = await idbGetAll(STORE_CHUNKS)
ChunkGetAll ==
    /\ mtask.pc = "chunks.getAll"
    /\ LET old == OldKeys(idbGetAllChunks(chunks), "receivedAt", "chunkKey",
                          mtask.chunkCutoff)
       IN  mtask' = IF old = <<>> THEN MaintenanceDone(mtask)
                    ELSE [mtask EXCEPT !.pc = "chunks.del"] @@ [todo |-> old]
    /\ UNCHANGED <<coreVars, chunkVars, removed, accepted, besideMaint>>

\* await idbDel(STORE_CHUNKS, entry.chunkKey)
ChunkCleanupDel ==
    /\ mtask.pc = "chunks.del"
    /\ chunks' = {e \in chunks : e.chunkKey # Head(mtask.todo)}
    /\ removed' = removed \cup
                   {[store |-> "chunks", stamp |-> e.receivedAt] :
                       e \in {x \in chunks : x.chunkKey = Head(mtask.todo)}}
    /\ mtask' = IF Tail(mtask.todo) = <<>>
                THEN MaintenanceDone(mtask)
                ELSE [mtask EXCEPT !.todo = Tail(@)]
    /\ UNCHANGED <<coreVars, ctasks, cret, ncomplete, submitted, accepted, besideMaint>>

\* the chunks of a message that stays partial: two of its three
PartialChunks == {ChunkOf("m1", seq, 3) : seq \in 0..1}

\* maintenance while the application marks messages as seen and stores
\* chunks, nothing awaiting anything else
NextMaint ==
    \/ StoreClockTick
    \/ CallCheckAndMarkSeen
    \/ SeenGet
    \/ SeenPut
    \/ StoreChunk(PartialChunks, 1, FALSE)
    \/ ChunkPut
    \/ ChunkGet
    \/ RunMaintenance
    \/ SeenGetAll
    \/ SeenDel
    \/ ChunkGetAll
    \/ ChunkCleanupDel

SpecMaint == Init /\ [][NextMaint]_vars

(***************************************************************************)
(* A recipient whose replay check is an atomic check-and-mark over the     *)
(* seen table, and who runs runMaintenance.  The clock counts seconds, as  *)
(* above; the sender gives the ttl in the same unit, and decryptMessage    *)
(* runs in normal mode, where it compares the clock with exp only.         *)
(***************************************************************************)
\* a ttl of one day, and one that outlasts the retention of the seen table
SenderTtls == {CHUNK_MAX_AGE_S, SEEN_RETENTION_S + 2}

LongLivedArgs ==
    { EncryptArgs("alice", "bob", "Hello, Bob!", None, Some(ttl), None, NoExtra) :
        ttl \in SenderTtls }

\* decryptMessage with replayCheck = (msgId, senderFp) => the entry is looked
\* up and, if absent, put in one transaction
DecryptAtomic ==
    /\ IsSome(env)
    /\ ~last.called
    /\ LET p == [message |-> Get(env),
                 recipientBoxPK |-> BoxKey("bob"),
                 recipientBoxSK |-> SecretOf(BoxKey("bob")),
                 expectedSenderSignPK |-> None,
                 expectedSenderBoxPK |-> None,
                 replayCheck |-> "sync",
                 strictMode |-> FALSE,
                 now |-> now,
                 seenKeys |-> SeenKeys(seen)]
           r == decryptMessage(p)
       IN  /\ last' = [called |-> TRUE, p |-> p, r |-> r]
           /\ seen' = IF r.allowed = "true"
                      THEN seen \cup {SeenEntry(makeSeenKey(Get(r.replay)[1],
                                                            Get(r.replay)[2]), now)}
                      ELSE seen
           /\ accepted' = IF r.err = "" THEN Append(accepted, Get(r.replay)) ELSE accepted
           /\ expiredAt' = IF r.err = "Message expired" /\ ~IsSome(expiredAt)
                           THEN Some(now) ELSE expiredAt
    /\ UNCHANGED <<now, env, origin, hist, seenDB, tasks, chunkVars, mtask, removed,
                   besideMaint>>

NextReplay ==
    \/ StoreClockTick
    \/ EncryptMessage(LongLivedArgs)
    \/ DecryptAtomic
    \/ ReturnToCaller
    \/ RunMaintenance
    \/ SeenGetAll
    \/ SeenDel
    \/ ChunkGetAll

SpecReplay == Init /\ [][NextReplay]_vars

(***************************************************************************)
(* QRTransport: processScanned and _processChunk, with onMessage and       *)
(* naclUtil set.  receivedChunks is a Map, here a function whose domain is *)
(* the set of its keys; an array slot holds <<>> (null) or <<chunk>>.      *)
(***************************************************************************)
\* the text of a QR code that holds JSON.stringify(obj)
QrCode(obj) == [json |-> TRUE, obj |-> obj]

\* the Map with key k set to v / with key k deleted
MapSet(map, k, v) == [x \in DOMAIN map \cup {k} |-> IF x = k THEN v ELSE map[x]]
MapDelete(map, k) == [x \in DOMAIN map \ {k} |-> map[x]]

\* the completed buffer left in the Map
processChunk_keepsBuffer(map, chunk) ==
    LET fresh == IF chunk.msgId \in DOMAIN map THEN map[chunk.msgId]
                 ELSE [k \in 1..chunk.total |-> None]
        slots == [fresh EXCEPT ![chunk.seq + 1] = Some(chunk)]
        r == reassembleChunks([k \in DOMAIN slots |-> Get(slots[k])])
    IN  IF \A k \in DOMAIN slots : slots[k] # None
        THEN [map |-> MapSet(map, chunk.msgId, slots),
              ret |-> r.msg, fired |-> IF r.err = "" THEN <<Get(r.msg)>> ELSE <<>>]
        ELSE [map |-> MapSet(map, chunk.msgId, slots), ret |-> None, fired |-> <<>>]

\* _processChunk(chunk): the new Map, the value returned, the onMessage calls
processChunk(map, chunk) ==
    LET fresh == IF chunk.msgId \in DOMAIN map THEN map[chunk.msgId]
                 ELSE [k \in 1..chunk.total |-> None]
        slots == [fresh EXCEPT ![chunk.seq + 1] = Some(chunk)]
        r == reassembleChunks([k \in DOMAIN slots |-> Get(slots[k])])
    IN  IF \A k \in DOMAIN slots : slots[k] # None
        THEN [map |-> MapDelete(map, chunk.msgId),
              ret |-> r.msg, fired |-> IF r.err = "" THEN <<Get(r.msg)>> ELSE <<>>]
        ELSE [map |-> MapSet(map, chunk.msgId, slots), ret |-> None, fired |-> <<>>]

\* processScanned(data)
processScanned(map, data) ==
    LET parsed == JsonParse(data)
    IN  IF ~JsonParses(data) THEN [map |-> map, ret |-> None, fired |-> <<>>]
        ELSE IF parsed.kind = "dmesh-msg"
        THEN [map |-> map, ret |-> Some(parsed), fired |-> <<parsed>>]
        ELSE IF parsed.kind = "dmesh-chunk" THEN processChunk(map, parsed)
        ELSE IF parsed.kind = "dmesh-id"
        THEN [map |-> map, ret |-> Some(parsed), fired |-> <<>>]
        ELSE [map |-> map, ret |-> None, fired |-> <<>>]

\* the messages shown as QR codes: E in three chunks, F in two
QrMessages == {EnvelopeOfSize("E", 3), EnvelopeOfSize("F", 2)}

QrChunks(msg) ==
    LET c == chunkMessage(msg, CHUNK_OVERHEAD + 1).chunks
    IN  {c[k] : k \in DOMAIN c}

\* what a scan can yield: a chunk of either message, a whole message, an
\* identity, something else, or text that is not JSON
Scans ==
    {QrCode(c) : c \in UNION {QrChunks(msg) : msg \in QrMessages}}
    \cup {QrCode([kind |-> k, name |-> "Bob"]) : k \in {"dmesh-msg", "dmesh-id", "dmesh-ack"}}
    \cup {NotJson}

ProcessScanned ==
    /\ \E data \in Scans :
        LET r == processScanned(receivedChunks, data)
        IN  /\ receivedChunks' = r.map
            /\ qlast' = [called |-> TRUE, data |-> data, ret |-> r.ret, fired |-> r.fired,
                         before |-> scanned]
            /\ scanned' = IF JsonParses(data) /\ JsonParse(data).kind = "dmesh-chunk"
                          THEN scanned \cup {JsonParse(data)} ELSE scanned
    /\ UNCHANGED <<coreVars, besideQr>>

NextQr == ProcessScanned

SpecQr == Init /\ [][NextQr]_vars

(***************************************************************************)
(* TransportManager (constructed with autoInit false).  A transport object *)
(* has a name and one onMessage and one onError property; registerTransport *)
(* assigns both a closure over the transport being registered.             *)
(***************************************************************************)
\* transport.name
TransportName(t) == IF t = "file#1" THEN "file" ELSE "qr"

\* the names send and receive are called with
TransportNames == {"qr", "file", "ble"}

\* the name kept when it is registered again
registerTransport_keepsFirst(mgr, handlers, transport) ==
    [transports |-> IF TransportName(transport) \in DOMAIN mgr.transports
                    THEN mgr.transports
                    ELSE MapSet(mgr.transports, TransportName(transport), transport),
     wired |-> [handlers EXCEPT ![transport] = Some(transport)]]

\* registerTransport(transport): the Map and the handlers afterwards
registerTransport(mgr, handlers, transport) ==
    [transports |-> MapSet(mgr.transports, TransportName(transport), transport),
     wired |-> [handlers EXCEPT ![transport] = Some(transport)]]

\* send(transportName, message) and receive(transportName, arg): the
\* transport whose method is invoked, or the rejection
dispatch(mgr, transportName) ==
    IF transportName \in DOMAIN mgr.transports
    THEN [invoked |-> Some(mgr.transports[transportName]), err |-> ""]
    ELSE [invoked |-> None, err |-> "Transport not found: " \o transportName]

\* a transport calls its onMessage or onError, if it has one: the calls of
\* the manager's callback that follow
emit(mgr, handlers, transport, callback, value) ==
    IF IsSome(handlers[transport]) /\ mgr.callbacks
    THEN <<[callback |-> callback, value |-> value,
            name |-> TransportName(Get(handlers[transport]))]>>
    ELSE <<>>

\* the application sets manager.onMessage and manager.onError
SetCallbacks ==
    /\ ~manager.callbacks
    /\ manager' = [manager EXCEPT !.callbacks = TRUE]
    /\ mlast' = NoCall
    /\ UNCHANGED <<coreVars, wired, registered, besideManager>>

RegisterTransport ==
    /\ \E t \in TransportObjects :
        LET r == registerTransport(manager, wired, t)
        IN  /\ manager' = [manager EXCEPT !.transports = r.transports]
            /\ wired' = r.wired
            /\ registered' = MapSet(registered, TransportName(t), t)
            /\ mlast' = [called |-> TRUE, op |-> "registerTransport", transport |-> t]
    /\ UNCHANGED <<coreVars, besideManager>>

Send ==
    /\ \E name \in TransportNames, op \in {"send", "receive"} :
        mlast' = [called |-> TRUE, op |-> op, name |-> name] @@ dispatch(manager, name)
    /\ UNCHANGED <<coreVars, manager, wired, registered, besideManager>>

\* a transport has a message or an error to report
Emit ==
    /\ \E t \in TransportObjects, callback \in {"onMessage", "onError"},
          value \in {"first", "second"} :
        mlast' = [called |-> TRUE, op |-> "emit", transport |-> t,
                  callback |-> callback, value |-> value,
                  calls |-> emit(manager, wired, t, callback, value)]
    /\ UNCHANGED <<coreVars, manager, wired, registered, besideManager>>

NextManager ==
    \/ SetCallbacks
    \/ RegisterTransport
    \/ Send
    \/ Emit

SpecManager == Init /\ [][NextManager]_vars

(***************************************************************************)
(* Sync protocol v1.0: performSync as one node runs it, one step per       *)
(* await; the peer is whoever is at the other end of the transport, and    *)
(* sends what it likes.  A session with peer p stands at                   *)
(*   IDLE        not running                                               *)
(*   HELLO_SENT  myHello sent, waiting for peerHello                       *)
(*   INV_SENT    myInv sent, waiting for peerInv                           *)
(*   GET_SENT    get sent, waiting for data                                *)
(*   ACK_SENT    step 4 over, waiting for peerGet                          *)
(*   DATA_SENT   data sent, waiting for peerAck                            *)
(***************************************************************************)
\* the messages that can come into the outbox; from is the peer a message
\* was received from, if any
SyncMessages ==
    { [msgId |-> "m1", exp |-> MAX_SKEW_MS, from |-> None],
      [msgId |-> "m2", exp |-> DEFAULT_TTL_MS, from |-> None],
      [msgId |-> "m3", exp |-> DEFAULT_TTL_MS + 1, from |-> Some("bob")] }

SyncMsgIds == {m.msgId : m \in SyncMessages}

\* capabilities.maxInvCount of a peer: room for one item, or for all
MaxInvCounts == {1, 1000}

\* the key of the forwarded table is the pair of peerFp and msgId
ForwardedEntry(peerFp, msgId) == [peerFp |-> peerFp, msgId |-> msgId]

\* the forwarded table not consulted
Candidates_unfiltered(box, table, peerFp, t) ==
    {m \in box : ~(m.exp < t) /\ m.from # Some(peerFp)}

\* INV filtering: what may be listed for peerFp at time t
Candidates(box, table, peerFp, t) ==
    {m \in box :
        /\ ~(m.exp < t)
        /\ ForwardedEntry(peerFp, m.msgId) \notin table
        /\ m.from # Some(peerFp)}

\* createInventory: the frames that can be built, items being up to
\* maxInvCount of the candidates
createInventory(box, table, peerFp, t, maxInvCount) ==
    { [kind |-> "sync-inv", ts |-> t,
       items |-> {[msgId |-> m.msgId, exp |-> m.exp] : m \in chosen}] :
        chosen \in {c \in SUBSET Candidates(box, table, peerFp, t) :
                      Cardinality(c) =
                          Min(maxInvCount, Cardinality(Candidates(box, table, peerFp, t)))} }

\* a message is queued for delivery or relay
AddToOutbox ==
    /\ \E m \in SyncMessages \ outbox : outbox' = outbox \cup {m}
    /\ myInv' = NoCall
    /\ syncEvent' = NoCall
    /\ UNCHANGED <<coreVars, forwarded, sync, besideSync>>

\* performSync(transport, p) is called and sends myHello
SendHello(p) ==
    /\ sync[p] = "IDLE"
    /\ sync' = [sync EXCEPT ![p] = "HELLO_SENT"]
    /\ myInv' = NoCall
    /\ syncEvent' = NoCall
    /\ UNCHANGED <<coreVars, outbox, forwarded, besideSync>>

\* peerHello arrives and is valid: myInv is built and sent
SendInv(p) ==
    /\ sync[p] = "HELLO_SENT"
    /\ \E n \in MaxInvCounts :
        \E inv \in createInventory(outbox, forwarded, p, now, n) :
            myInv' = [called |-> TRUE, peerFp |-> p, frame |-> inv]
    /\ sync' = [sync EXCEPT ![p] = "INV_SENT"]
    /\ syncEvent' = NoCall
    /\ UNCHANGED <<coreVars, outbox, forwarded, besideSync>>

\* peerInv arrives: with wants, get is sent; without, step 5 is next
SendGet(p) ==
    /\ sync[p] = "INV_SENT"
    /\ \E wants \in BOOLEAN :
        sync' = [sync EXCEPT ![p] = IF wants THEN "GET_SENT" ELSE "ACK_SENT"]
    /\ myInv' = NoCall
    /\ syncEvent' = NoCall
    /\ UNCHANGED <<coreVars, outbox, forwarded, besideSync>>

\* data arrives, its messages are processed and acknowledged
SendAck(p) ==
    /\ sync[p] = "GET_SENT"
    /\ sync' = [sync EXCEPT ![p] = "ACK_SENT"]
    /\ myInv' = NoCall
    /\ syncEvent' = NoCall
    /\ UNCHANGED <<coreVars, outbox, forwarded, besideSync>>

\* the messages marked as forwarded when they are sent
SendData_marks(p) ==
    /\ sync[p] = "ACK_SENT"
    /\ \E want \in SUBSET SyncMsgIds :
        /\ forwarded' = forwarded \cup {ForwardedEntry(p, id) : id \in want}
        /\ sync' = [sync EXCEPT ![p] = "DATA_SENT"]
    /\ myInv' = NoCall
    /\ syncEvent' = NoCall
    /\ UNCHANGED <<coreVars, outbox, besideSync>>

\* peerGet arrives: none ends the session, otherwise the data is sent
SendData(p) ==
    /\ sync[p] = "ACK_SENT"
    /\ \E peerGet \in BOOLEAN :
        sync' = [sync EXCEPT ![p] = IF peerGet THEN "DATA_SENT" ELSE "IDLE"]
    /\ myInv' = NoCall
    /\ syncEvent' = NoCall
    /\ UNCHANGED <<coreVars, outbox, forwarded, besideSync>>

\* peerAck arrives: markForwarded(p, peerAck.received)
MarkForwarded(p) ==
    /\ sync[p] = "DATA_SENT"
    /\ \E received \in SUBSET SyncMsgIds :
        /\ forwarded' = forwarded \cup {ForwardedEntry(p, id) : id \in received}
        /\ syncEvent' = [called |-> TRUE, kind |-> "sync-ack", peerFp |-> p,
                         received |-> received]
    /\ sync' = [sync EXCEPT ![p] = "IDLE"]
    /\ myInv' = NoCall
    /\ UNCHANGED <<coreVars, outbox, besideSync>>

\* a send, a receive or a validation throws: performSync ends there
SyncFails(p) ==
    /\ sync[p] # "IDLE"
    /\ sync' = [sync EXCEPT ![p] = "IDLE"]
    /\ myInv' = NoCall
    /\ syncEvent' = [called |-> TRUE, kind |-> "error", peerFp |-> p, at |-> sync[p]]
    /\ UNCHANGED <<coreVars, outbox, forwarded, besideSync>>

NextSync ==
    \/ AddToOutbox
    \/ ClockTick
    \/ \E p \in SyncPeers :
        \/ SendHello(p)
        \/ SendInv(p)
        \/ SendGet(p)
        \/ SendAck(p)
        \/ SendData(p)
        \/ MarkForwarded(p)
        \/ SyncFails(p)

SpecSync == Init /\ [][NextSync]_vars

(***************************************************************************)
(* Round trips: encryptMessage over contents, types and extra payload      *)
(* fields, the envelope delivered as it is.                                *)
(***************************************************************************)
Contents == {"", "Hello, Bob!", AtLimit, TooLarge}
Types == {None, Some(""), Some("medical")}
PayloadExtras ==
    {NoExtra, [priority |-> "high"], [content |-> "Hello, Eve!"], [type |-> "location"]}

RoundTripArgs ==
    { EncryptArgs("alice", recipient, content, ts, None, type, extra) :
        recipient \in Recipients, content \in Contents,
        ts \in {None, Some(MAX_SKEW_MS + 1)}, type \in Types, extra \in PayloadExtras }

NextRT ==
    \/ EncryptMessage(RoundTripArgs)
    \/ Tick
    \/ DecryptMessage({"none"})
    \/ ReturnToCaller

SpecRT == Init /\ [][NextRT]_vars

(***************************************************************************)
(* The checks of decryptMessage as the protocol numbers them, each stated  *)
(* on the arguments of a call, and the step an error or a logged           *)
(* operation belongs to.                                                   *)
(***************************************************************************)
Dec(m, f) == decodeBase64(m[f])

FailsFormat(p) == p.message.v # 1 \/ p.message.kind # "dmesh-msg"

FailsDecode(p) ==
    LET m == p.message
    IN  \/ \E i \in 1..Len(B64Fields) : ~m[B64Fields[i]].ok
        \/ Dec(m, "senderSignPK").len # 32
        \/ Dec(m, "senderBoxPK").len # 32
        \/ Dec(m, "recipientBoxPK").len # 32
        \/ Dec(m, "ephPK").len # 32
        \/ Dec(m, "nonce").len # 24
        \/ Dec(m, "signature").len # 64
        \/ m.ts = None

FailsValidity(p) ==
    LET m == p.message
        ts == m.ts[1]
    IN  IF p.strictMode
        THEN p.now - ts > 600000 \/ ts - p.now > 600000
        ELSE IF m.exp # None THEN p.now > m.exp[1]
        ELSE p.now > ts + 604800000

FailsMsgId(p) ==
    LET m == p.message
    IN  /\ m.msgId # None
        /\ m.msgId[1] # EmptyString
        /\ m.msgId[1] # encodeBase64(messageIdFromCiphertext(Dec(m, "ciphertext")))

FailsRecipient(p) == encodeBase64(p.recipientBoxPK) # p.message.recipientBoxPK

FailsSignKey(p) ==
    /\ p.expectedSenderSignPK # None
    /\ encodeBase64(p.expectedSenderSignPK[1]) # p.message.senderSignPK

FailsBoxKey(p) ==
    /\ p.expectedSenderBoxPK # None
    /\ encodeBase64(p.expectedSenderBoxPK[1]) # p.message.senderBoxPK

FailsSenderKeys(p) == FailsSignKey(p) \/ FailsBoxKey(p)

SignatureVerifies(m) ==
    SignVerify(<<DOMAIN_TAG, Dec(m, "senderSignPK"), Dec(m, "senderBoxPK"),
                 Dec(m, "recipientBoxPK"), Dec(m, "ephPK"), Dec(m, "nonce"),
                 u64beFromNumber(Num(m.ts[1])), u32be(Num(Dec(m, "ciphertext").len)),
                 Dec(m, "ciphertext")>>,
               Dec(m, "signature"), Dec(m, "senderSignPK"))

FailsSignature(p) == ~SignatureVerifies(p.message)

ReplayKeyOf(m) ==
    <<encodeBase64(messageIdFromCiphertext(Dec(m, "ciphertext"))),
      encodeBase64(fingerprintFromSignPK(Dec(m, "senderSignPK")))>>

\* the value replayCheck returns is falsy; a Promise is not
FailsReplay(p) == p.replayCheck = "sync" /\ ReplayKeyOf(p.message) \in p.seenKeys

Opened(p) ==
    BoxOpenAfter(Dec(p.message, "ciphertext"), Dec(p.message, "nonce"),
                 BoxBefore(Dec(p.message, "ephPK"), p.recipientBoxSK))

FailsOpen(p) == Opened(p) = None

FailsParse(p) == ~Opened(p)[1].json

Fails(k, p) ==
    CASE k = 1 -> FailsFormat(p)
      [] k = 2 -> FailsDecode(p)
      [] k = 3 -> FailsValidity(p)
      [] k = 4 -> FailsMsgId(p)
      [] k = 5 -> FailsRecipient(p)
      [] k = 6 -> FailsSenderKeys(p)
      [] k = 7 -> FailsSignature(p)
      [] k = 8 -> FailsReplay(p)
      [] k = 9 -> FailsOpen(p)
      [] k = 10 -> FailsParse(p)

LengthErrors ==
    {"senderSignPK length invalid", "senderBoxPK length invalid",
     "recipientBoxPK length invalid", "ephPK length invalid", "nonce length invalid",
     "signature length invalid"}

SenderKeyErrors == {"Sender signing key mismatch", "Sender box key mismatch"}

\* the step an error reports; 11 stands for a normal return
StepOfError(e) ==
    CASE e = "Invalid message format" -> 1
      [] e \in {"Base64 decode failed", "ts invalid"} \cup LengthErrors -> 2
      [] e \in {"Timestamp skew too large", "Message expired"} -> 3
      [] e = "Message ID mismatch" -> 4
      [] e = "Not intended for this recipient" -> 5
      [] e \in SenderKeyErrors -> 6
      [] e = "Invalid signature" -> 7
      [] e = "Replay detected" -> 8
      [] e = "Decryption failed" -> 9
      [] e = "Payload JSON parse failed" -> 10
      [] e = "" -> 11

StepOfOp(op) ==
    CASE op = "format" -> 1
      [] op \in {"decodeBase64", "lengths", "ts"} -> 2
      [] op = "isMessageValid" -> 3
      [] op \in {"hash(ciphertext)", "msgId"} -> 4
      [] op = "recipient" -> 5
      [] op \in {"hash(senderSignPK)", "senderKeys"} -> 6
      [] op = "sign.verify" -> 7
      [] op = "replayCheck" -> 8
      [] op = "box.open" -> 9
      [] op = "JSON.parse" -> 10

Ran(op) == \E i \in 1..Len(last.r.log) : last.r.log[i] = op

\* the call got as far as step k: no earlier check fails
Reaches(k, p) == \A j \in 1..(k - 1) : ~Fails(j, p)

(***************************************************************************)
(* C1: decryptMessage applies its checks in the order format, decoding and *)
(* lengths and ts, validity window, message ID, recipient, sender keys,    *)
(* signature, replay, box-open, payload parse: the error of a call is that *)
(* of the earliest check that fails, a call returns normally only when no  *)
(* check fails, and the operations performed are those of the steps up to  *)
(* the failing one, in order.                                              *)
(***************************************************************************)
C1_FirstFailingCheck ==
    last.called =>
        LET k == StepOfError(last.r.err)
            log == last.r.log
        IN  /\ Reaches(k, last.p)
            /\ k <= 10 => Fails(k, last.p)
            /\ \A i \in 1..Len(log) : StepOfOp(log[i]) <= k
            /\ \A i \in 1..(Len(log) - 1) : StepOfOp(log[i]) <= StepOfOp(log[i + 1])
            /\ k <= 10 => StepOfOp(log[Len(log)]) = k

\* an expired envelope whose ciphertext was changed reports the expiry
C1_Witness ==
    /\ last.called
    /\ last.r.err = "Message expired"
    /\ FailsMsgId(last.p)
    /\ FailsRecipient(last.p)
    /\ ~Ran("hash(ciphertext)")

(***************************************************************************)
(* C2 (as claimed): a decryptMessage call that ends in an error leaves the *)
(* seen-set behind the replay check as it was before the call.             *)
(***************************************************************************)
C2_FailedDecryptLeavesSeenSet ==
    (last.called /\ last.r.err # "") => seenDB = last.p.seenKeys

(***************************************************************************)
(* C5: the replay check is invoked only after the signature has verified,  *)
(* exactly once, with the message ID recomputed from the ciphertext and    *)
(* the fingerprint of senderSignPK; a call that fails at a check up to the *)
(* signature makes no replay check and leaves the seen-set as it was; a    *)
(* call given a replay check whose envelope passes the signature check     *)
(* invokes it.                                                             *)
(***************************************************************************)
Count(log, op) == Cardinality({i \in 1..Len(log) : log[i] = op})

C5_WitnessReached ==
    /\ last.called
    /\ Ran("replayCheck")
    /\ last.r.err = ""
    /\ seenDB # {}

(***************************************************************************)
(* C6 (as claimed): a well-formed envelope decrypted under a recipient key *)
(* other than the one it names fails with the recipient mismatch error,    *)
(* and no hashing, signature verification or box-open is performed.        *)
(***************************************************************************)
WellFormed(p) == ~FailsFormat(p) /\ ~FailsDecode(p)

OtherRecipient(p) == p.recipientBoxPK # Dec(p.message, "recipientBoxPK")

CoveredFields ==
    {"senderSignPK", "senderBoxPK", "recipientBoxPK", "ephPK", "nonce", "ts", "ciphertext"}

OneBitFlipped ==
    /\ origin.kind = "encrypt"
    /\ Len(hist) = 1
    /\ hist[1].op = "flip"
    /\ hist[1].field \in CoveredFields

ByIntendedRecipient(p) == p.recipientBoxPK = origin.q.recipientBoxPK

ExpectsSender(p) ==
    /\ p.expectedSenderSignPK \in {None, <<origin.q.senderSignPK>>}
    /\ p.expectedSenderBoxPK \in {None, <<origin.q.senderBoxPK>>}

SignKeyDiffers(p) ==
    p.expectedSenderSignPK # None /\ p.expectedSenderSignPK[1] # Dec(p.message, "senderSignPK")

BoxKeyDiffers(p) ==
    p.expectedSenderBoxPK # None /\ p.expectedSenderBoxPK[1] # Dec(p.message, "senderBoxPK")

TenMinutes == 10 * 60 * 1000
SevenDays == 7 * 24 * 60 * 60 * 1000

C10_ValidityWindow ==
    (last.called /\ WellFormed(last.p)) =>
        LET m == last.p.message
            t == last.p.now
            ts == m.ts[1]
        IN  /\ last.p.strictMode =>
                  /\ last.r.err = "Timestamp skew too large"
                        <=> ~(t - ts <= TenMinutes /\ ts - t <= TenMinutes)
                  /\ last.r.err # "Message expired"
            /\ ~last.p.strictMode =>
                  /\ last.r.err = "Message expired"
                        <=> ~(IF m.exp # None THEN t <= m.exp[1] ELSE t <= ts + SevenDays)
                  /\ last.r.err # "Timestamp skew too large"
                  /\ expiredAt # None => last.r.err = "Message expired"

\* accepted at the very instant of exp, then rejected one millisecond later
C10_Witness ==
    /\ last.called
    /\ ~last.p.strictMode
    /\ last.p.message.exp # None
    /\ expiredAt # None
    /\ Get(expiredAt) < now
    /\ last.r.err = "Message expired"

C10_WitnessBoundary ==
    /\ last.called
    /\ ~last.p.strictMode
    /\ last.p.message.exp = <<now>>
    /\ last.r.err = ""

(***************************************************************************)
(* C3 (as claimed): of the checkAndMarkSeen calls made for one pair that   *)
(* was not in the seen-set, at most one returns true, and when two such    *)
(* calls have both returned, one returned true and the other false.        *)
(***************************************************************************)
C3_ExactlyOneAllowed ==
    \A i, j \in DOMAIN tasks :
        (/\ i < j
         /\ tasks[i].key = tasks[j].key
         /\ tasks[i].pc = "done"
         /\ tasks[j].pc = "done") =>
            {tasks[i].ret, tasks[j].ret} = {"true", "false"}

(***************************************************************************)
(* C4 (as claimed): a decryptMessage call with the store's                 *)
(* checkAndMarkSeen as replayCheck, made for a verified envelope whose     *)
(* pair the store's seen-set holds when the call is made, fails with        *)
(* Replay detected.                                                        *)
(***************************************************************************)
C4_SecondDecryptRejected ==
    (/\ last.called
     /\ last.p.replayCheck = "store"
     /\ Reaches(8, last.p)
     /\ ReplayKeyOf(last.p.message) \in last.p.seenKeys) =>
        last.r.err = "Replay detected"

(***************************************************************************)
(* C8 (as claimed): an envelope made by encryptMessage and decrypted as it *)
(* is with the recipient's keys and the sender's public keys as expected   *)
(* keys, inside its validity window, returns the content, the ts and the   *)
(* type given to encryptMessage (text when no type was given).             *)
(***************************************************************************)
C8_RoundTrip ==
    (/\ last.called
     /\ origin.kind = "encrypt"
     /\ hist = <<>>
     /\ last.p.recipientBoxPK = origin.q.recipientBoxPK
     /\ last.p.expectedSenderSignPK = <<origin.q.senderSignPK>>
     /\ last.p.expectedSenderBoxPK = <<origin.q.senderBoxPK>>
     /\ ~FailsValidity(last.p)) =>
        /\ last.r.err = ""
        /\ last.r.out[1].content = origin.q.content
        /\ last.r.out[1].ts = (IF origin.q.ts # None THEN origin.q.ts[1] ELSE origin.at)
        /\ last.r.out[1].type = (IF origin.q.type \in {None, <<"">>}
                                 THEN "text" ELSE origin.q.type[1])

(***************************************************************************)
(* C11 (as claimed): of the calls that get as far as the message ID step,  *)
(* one whose envelope has a msgId field that differs from the message ID   *)
(* recomputed from the ciphertext fails with Message ID mismatch.          *)
(***************************************************************************)
RecomputedMsgId(m) == encodeBase64(messageIdFromCiphertext(Dec(m, "ciphertext")))

C11_PresentMsgIdValidated ==
    (/\ last.called
     /\ WellFormed(last.p)
     /\ ~FailsValidity(last.p)
     /\ last.p.message.msgId # None
     /\ last.p.message.msgId[1] # RecomputedMsgId(last.p.message)) =>
        last.r.err = "Message ID mismatch"

\* what holds of the message ID: a non-empty msgId is validated, an absent
\* one is accepted, and a result carries the recomputed ID, which is the one
\* encryptMessage put into the envelope
C11_MessageIdOfResult ==
    (last.called /\ WellFormed(last.p) /\ ~FailsValidity(last.p)) =>
        LET m == last.p.message
        IN  /\ (m.msgId # None /\ m.msgId[1].bytes.len # 0
                  /\ m.msgId[1] # RecomputedMsgId(m)) =>
                  last.r.err = "Message ID mismatch"
            /\ m.msgId = None => last.r.err # "Message ID mismatch"
            /\ last.r.err = "" =>
                  /\ last.r.out[1].msgId = RecomputedMsgId(m)
                  /\ origin.kind = "encrypt" =>
                        last.r.out[1].msgId =
                            encryptMessage(origin.q, origin.at, 1).msg[1].msgId[1]

(***************************************************************************)
(* C12 (as claimed): the signing key and the box key stored for a          *)
(* fingerprint are the ones recorded when the contact was created, as long *)
(* as the contact is not deleted.                                          *)
(***************************************************************************)
C12_ContactKeysNeverChange ==
    \A fp \in ContactFps :
        contacts[fp] # None =>
            <<contacts[fp][1].signPK, contacts[fp][1].boxPK>> = firstKeys[fp][1]

(***************************************************************************)
(* C13 (as claimed): a storeChunk call returns a chunk set only when the   *)
(* entries stored for chunk.msgId after the insertion (the ones it         *)
(* returns) hold exactly total sequence numbers, each once, all within     *)
(* [0, total) and all carrying the same total.                             *)
(***************************************************************************)
SeqsOf(list) == {list[k].seq : k \in DOMAIN list}

C13_CompleteSetOnly ==
    (cret.called /\ cret.ret # None) =>
        LET set == cret.ret[1]
            total == cret.chunk.total
        IN  /\ Len(set) = total
            /\ SeqsOf(set) = 0..(total - 1)
            /\ \A k \in DOMAIN set : set[k].total = total

(***************************************************************************)
(* C14 (as claimed): when the chunks of a message have each been handed    *)
(* once to storeChunk, by calls that run concurrently, and all the calls   *)
(* have returned, exactly one of them has returned the chunk set and no    *)
(* entry of the message is left in the chunk store.                        *)
(***************************************************************************)
C14_OneCompletion ==
    (/\ RacingChunks \subseteq submitted
     /\ \A i \in DOMAIN ctasks : ctasks[i].chunk.msgId # "m1") =>
        /\ ncomplete["m1"] = 1
        /\ getPendingChunks("m1") = <<>>

(***************************************************************************)
(* C15 (as claimed): the chunk set a storeChunk call returns lists the     *)
(* sequence numbers 0..total-1, each once, in ascending order, and right   *)
(* after the call no entry of the message is pending.                      *)
(***************************************************************************)
C15_SortedCompleteSet ==
    (cret.called /\ cret.ret # None) =>
        LET set == cret.ret[1]
        IN  /\ Len(set) = cret.chunk.total
            /\ \A k \in DOMAIN set : set[k].seq = k - 1
            /\ getPendingChunks(cret.chunk.msgId) = <<>>

(***************************************************************************)
(* C16: reassembleChunks applied to the chunks that chunkMessage(E, N)     *)
(* returned for N > CHUNK_OVERHEAD, all of them, each once, in any order,  *)
(* returns an envelope equal to E.                                         *)
(***************************************************************************)
C16_ChunkRoundTrip ==
    (rout.called /\ edits = <<>> /\ cin.maxChunkSize > 150) =>
        /\ rout.err = ""
        /\ rout.msg = <<cin.msgJson>>

\* three or more chunks, supplied out of order
C16_Witness ==
    /\ rout.called
    /\ edits = <<>>
    /\ Len(pile) >= 3
    /\ pile[1].seq > pile[2].seq
    /\ rout.msg = <<cin.msgJson>>

(***************************************************************************)
(* C17 (as claimed): reassembleChunks returns an envelope only for a set   *)
(* whose chunks all declare one total, that total being the number of      *)
(* chunks, whose sequence numbers are 0..total-1, each once, and whose     *)
(* msgId is the same throughout.                                           *)
(***************************************************************************)
C17_EnvelopeOnlyFromCompleteSet ==
    (rout.called /\ rout.err = "") =>
        /\ \A k \in DOMAIN pile : pile[k].total = Len(pile)
        /\ {pile[k].seq : k \in DOMAIN pile} = 0..(Len(pile) - 1)
        /\ \A k \in DOMAIN pile : pile[k].msgId = pile[1].msgId

(***************************************************************************)
(* C18: chunkMessage(E, N) with N > 150 returns ceil(len / (N - 150))      *)
(* chunks, len being the length of the serialized envelope; the chunks     *)
(* carry seq 0, 1, ... in order, the number of chunks as total, and the    *)
(* message ID of E.ciphertext as msgId; each data is at most N - 150 bytes *)
(* long and the data, one after the other, are the serialized envelope.    *)
(* With N <= 150 it fails with Max chunk size too small and returns no     *)
(* chunks.                                                                 *)
(***************************************************************************)
C18_ChunkLayout ==
    cout.called =>
        LET n == cin.maxChunkSize - 150
            len == cin.msgJson.size
            c == cout.chunks
        IN  IF n <= 0
            THEN cout.err = "Max chunk size too small" /\ c = <<>>
            ELSE /\ cout.err = ""
                 /\ (Len(c) - 1) * n < len
                 /\ len <= Len(c) * n
                 /\ \A k \in DOMAIN c :
                       /\ c[k].kind = "dmesh-chunk"
                       /\ c[k].seq = k - 1
                       /\ c[k].total = Len(c)
                       /\ c[k].msgId = RecomputedMsgId(cin.msgJson)
                       /\ c[k].data.ok
                       /\ Len(c[k].data.bytes) \in 1..n
                       /\ \A j \in DOMAIN c[k].data.bytes :
                             c[k].data.bytes[j] = <<cin.msgJson.id, (k - 1) * n + j>>
                 /\ ConcatData(c) = [j \in 1..len |-> <<cin.msgJson.id, j>>]

\* three chunks, the last one shorter than the others
C18_Witness ==
    /\ cout.called
    /\ Len(cout.chunks) = 3
    /\ Len(cout.chunks[3].data.bytes) < Len(cout.chunks[1].data.bytes)

Offered(p) == Candidates(outbox, forwarded, p, now)

C22_EphemeralSecretZeroed ==
    (origin.kind = "encrypt" /\ IsSome(origin.ephSK)) => Get(origin.ephSK).zeroed

\* a run of runMaintenance that is through leaves no entry behind that was
\* older than its retention when the cleanup took its cutoff
C23_OldRemoved ==
    (mtask.pc = "idle" /\ mtask.runs > 0) =>
        /\ \A e \in seen : ~(e.seenAt < mtask.seenCutoff)
        /\ \A e \in chunks : ~(e.receivedAt < mtask.chunkCutoff)

\* what runMaintenance deleted from the seen table was older than the retention
C23_YoungSeenKept ==
    \A r \in removed : r.store = "seen" => r.stamp < mtask.seenCutoff

\* what runMaintenance deleted from the chunks table was older than 24 hours
C23_YoungChunksKept ==
    \A r \in removed : r.store = "chunks" => r.stamp < mtask.chunkCutoff

\* no step of runMaintenance writes the contacts or the outbox
C23_OtherTablesUntouched ==
    [][(RunMaintenance \/ SeenGetAll \/ SeenDel \/ ChunkGetAll \/ ChunkCleanupDel) =>
            UNCHANGED <<contacts, outbox>>]_vars

(***************************************************************************)
(* C23: runMaintenance removes every seen entry older than the 30-day      *)
(* retention and every partial chunk older than 24 hours, removes no seen  *)
(* entry and no chunk that is younger than its retention, and leaves the   *)
(* other tables as they are.                                               *)
(***************************************************************************)
C23_MaintenanceRemovesOldOnly ==
    /\ []C23_OldRemoved
    /\ []C23_YoungSeenKept
    /\ []C23_YoungChunksKept
    /\ C23_OtherTablesUntouched

(***************************************************************************)
(* C24: in every envelope encryptMessage produces, ts is the supplied      *)
(* timestamp, or the current time when none is supplied, and exp is ts     *)
(* plus the supplied ttlMs, or plus DEFAULT_TTL_MS when no ttl is supplied *)
(* (undefined or null); so exp > ts whenever no ttl is given.              *)
(***************************************************************************)
C24_TimestampAndExpiration ==
    (origin.kind = "encrypt" /\ origin.err = "") =>
        LET q == origin.q
            ts == IF Nullish(q.ts) THEN origin.at ELSE Get(q.ts)
            ttl == IF Nullish(q.ttlMs) THEN DEFAULT_TTL_MS ELSE Get(q.ttlMs)
        IN  /\ Get(env).ts = Some(ts)
            /\ Get(env).exp = Some(ts + ttl)
            /\ Nullish(q.ttlMs) => Get(Get(env).exp) > Get(Get(env).ts)

\* the same with null left out: a ttl that is undefined gives the default
C24_UndefinedTtl ==
    (origin.kind = "encrypt" /\ origin.err = "" /\ origin.q.ttlMs # Null) =>
        LET q == origin.q
            ts == IF Nullish(q.ts) THEN origin.at ELSE Get(q.ts)
            ttl == IF q.ttlMs = None THEN DEFAULT_TTL_MS ELSE Get(q.ttlMs)
        IN  /\ Get(env).ts = Some(ts)
            /\ Get(env).exp = Some(ts + ttl)
            /\ q.ttlMs = None => Get(Get(env).exp) > Get(Get(env).ts)

\* the errors of decryptMessage that wrapError has a code for, and the code
CodeOfError ==
    [e \in {"Invalid message format", "Base64 decode failed", "Timestamp skew too large",
            "Not intended for this recipient", "Sender signing key mismatch",
            "Sender box key mismatch", "Invalid signature", "Replay detected",
            "Decryption failed", "Payload JSON parse failed"} |->
        CASE e = "Invalid message format" -> "INVALID_MESSAGE_FORMAT"
          [] e = "Base64 decode failed" -> "BASE64_DECODE_FAILED"
          [] e = "Timestamp skew too large" -> "TIMESTAMP_SKEW"
          [] e = "Not intended for this recipient" -> "RECIPIENT_MISMATCH"
          [] e \in {"Sender signing key mismatch", "Sender box key mismatch"} ->
                "SENDER_KEY_MISMATCH"
          [] e = "Invalid signature" -> "SIGNATURE_INVALID"
          [] e = "Replay detected" -> "REPLAY_DETECTED"
          [] e = "Decryption failed" -> "DECRYPTION_FAILED"
          [] e = "Payload JSON parse failed" -> "JSON_PARSE_FAILED"]

\* the category the specification gives each code
CategoryOfCode ==
    [c \in {"INVALID_MESSAGE_FORMAT", "BASE64_DECODE_FAILED", "JSON_PARSE_FAILED",
            "INVALID_KEY_LENGTH", "TIMESTAMP_SKEW", "RECIPIENT_MISMATCH",
            "SENDER_KEY_MISMATCH", "SIGNATURE_INVALID", "REPLAY_DETECTED",
            "DECRYPTION_FAILED"} |->
        CASE c \in {"INVALID_MESSAGE_FORMAT", "BASE64_DECODE_FAILED", "JSON_PARSE_FAILED"} ->
                "FORMAT"
          [] c \in {"INVALID_KEY_LENGTH", "TIMESTAMP_SKEW", "RECIPIENT_MISMATCH"} ->
                "VALIDATION"
          [] c \in {"SENDER_KEY_MISMATCH", "SIGNATURE_INVALID", "REPLAY_DETECTED"} ->
                "SECURITY"
          [] c = "DECRYPTION_FAILED" -> "CRYPTO"]

\* the wrapped error of the last decryptMessage call
Wrapped == wrapError(last.r.err, ErrorCode.DECRYPTION_FAILED)

\* the checks wrapError knows get their code and its category
C25_KnownChecksCoded ==
    (last.called /\ last.r.err \in DOMAIN CodeOfError) =>
        /\ Wrapped.code = CodeOfError[last.r.err]
        /\ Wrapped.category = CategoryOfCode[Wrapped.code]
        /\ Wrapped.details = last.r.err

(***************************************************************************)
(* C25: for every check at which decryptMessage fails, wrapError gives the *)
(* error the code of that check and the code's category: the length checks *)
(* INVALID_KEY_LENGTH, and no failure but that of box.open comes out under *)
(* the default code DECRYPTION_FAILED.                                     *)
(***************************************************************************)
C25_StableCodePerCheck ==
    (last.called /\ last.r.err # "") =>
        /\ last.r.err \in DOMAIN CodeOfError => Wrapped.code = CodeOfError[last.r.err]
        /\ last.r.err \in LengthErrors => Wrapped.code = "INVALID_KEY_LENGTH"
        /\ Wrapped.code = "DECRYPTION_FAILED" => last.r.err = "Decryption failed"
        /\ Wrapped.code \in DOMAIN CategoryOfCode =>
              Wrapped.category = CategoryOfCode[Wrapped.code]

(***************************************************************************)
(* C26: send and receive invoke the transport registered last under the    *)
(* name given, that one only, and reject with Transport not found when     *)
(* none was registered under it; and what a registered transport emits     *)
(* comes to the manager's onMessage / onError (once they are set) in one   *)
(* call, with the value emitted and the name of the emitting transport,    *)
(* whatever was registered before, the same name twice included.           *)
(***************************************************************************)
C26_RoutesByName ==
    /\ (mlast.called /\ mlast.op \in {"send", "receive"}) =>
          IF mlast.name \in DOMAIN registered
          THEN mlast.invoked = <<registered[mlast.name]>> /\ mlast.err = ""
          ELSE mlast.invoked = <<>> /\ mlast.err = "Transport not found: " \o mlast.name
    /\ (/\ mlast.called
        /\ mlast.op = "emit"
        /\ manager.callbacks
        /\ \E n \in DOMAIN registered : registered[n] = mlast.transport) =>
          mlast.calls = <<[callback |-> mlast.callback, value |-> mlast.value,
                           name |-> TransportName(mlast.transport)]>>

\* the second QR transport, registered over the first, emits an error
C26_Witness ==
    /\ mlast.called
    /\ mlast.op = "emit"
    /\ mlast.transport = "qr#2"
    /\ mlast.callback = "onError"
    /\ wired["qr#1"] # None
    /\ manager.transports["qr"] = "qr#2"
    /\ Len(mlast.calls) = 1

(***************************************************************************)
(* C27: generateSafetyNumber(a, b) = generateSafetyNumber(b, a) for all    *)
(* fingerprints a and b, and the result is four decimal digits, a hyphen,  *)
(* and four decimal digits.                                                *)
(***************************************************************************)
C27_SafetyNumberSymmetric ==
    fout.called =>
        /\ fout.ret = fout.swapped
        /\ Len(fout.ret) = 9
        /\ fout.ret[5] = "-"
        /\ \A i \in {1, 2, 3, 4, 6, 7, 8, 9} : fout.ret[i] \in 0..9

\* two fingerprints that the sort swaps, with a number that needs padding
C27_Witness ==
    /\ fout.called
    /\ CompareBytes(fin.fp1, fin.fp2, 1) > 0
    /\ fout.ret[1] = 0
    /\ fout.ret[9] # 0

\* the number whose big-endian bytes are b, in base 2^16
ValueOfBytes(b) ==
    LET pad == [i \in 1..(8 - Len(b)) |-> 0] \o b
    IN  [i \in 1..4 |-> pad[2 * i - 1] * 256 + pad[2 * i]]

(***************************************************************************)
(* C28: for an integer n from 0 to 2^53, u64beFromNumber(n) is eight bytes *)
(* whose big-endian value is n, and two different timestamps give          *)
(* different signed bytes; for n below 2^32, u32be(n) is four bytes whose  *)
(* big-endian value is n.                                                  *)
(***************************************************************************)
C28_BigEndianExact ==
    fout.called =>
        /\ Len(fout.u64n) = 8
        /\ \A i \in 1..8 : fout.u64n[i] \in 0..255
        /\ ValueOfBytes(fout.u64n) = fin.n.w
        /\ fin.n # fin.m => fout.signN # fout.signM
        /\ (fin.n.w[1] = 0 /\ fin.n.w[2] = 0) =>
              /\ Len(fout.u32n) = 4
              /\ \A i \in 1..4 : fout.u32n[i] \in 0..255
              /\ ValueOfBytes(fout.u32n) = fin.n.w

\* 2^53 is encoded, and the other timestamp is 1
C28_Witness ==
    /\ fout.called
    /\ fin.n.w = <<32, 0, 0, 0>>
    /\ fout.u64n = <<0, 32, 0, 0, 0, 0, 0, 0>>
    /\ fin.m.w = <<0, 0, 0, 1>>

\* the errors of the steps up to and including the check of ts
DecodeStepErrors ==
    {"Invalid message format", "Base64 decode failed", "ts invalid"} \cup LengthErrors

\* v is an integer that is finite
FiniteInteger(v) == Len(v) = 1

(***************************************************************************)
(* C29: decryptMessage rejects an envelope whose ts is missing, is no      *)
(* number, is infinite, is NaN or is a number that is no integer, and it   *)
(* does so at the step that decodes the fields and checks their lengths,   *)
(* before the validity window, the signature and the replay check.         *)
(***************************************************************************)
C29_TsFiniteInteger ==
    (last.called /\ ~FiniteInteger(last.p.message.ts)) =>
        /\ last.r.err \in DecodeStepErrors
        /\ \A i \in 1..Len(last.r.log) :
              last.r.log[i] \notin {"isMessageValid", "sign.verify", "replayCheck"}

\* the part of C29 that holds: a ts that is missing, a text, NaN or infinite
\* is rejected with "ts invalid" before the validity window
C29_NotFiniteRejected ==
    (last.called /\ last.p.message.ts \in {None, Text, NotANumber, Infinite}) =>
        /\ last.r.err = "ts invalid"
        /\ \A i \in 1..Len(last.r.log) :
              last.r.log[i] \notin {"isMessageValid", "sign.verify", "replayCheck"}

(***************************************************************************)
(* C30: decryptKeys throws on every backup whose version is not 2, the     *)
(* legacy version 1 backups among them, before it decodes a field, derives *)
(* a key or opens the box; and every backup that encryptKeys returns has   *)
(* version 2.                                                              *)
(***************************************************************************)
C30_OnlyVersionTwo ==
    /\ (fout.called /\ fin.kind = "decryptKeys"
          /\ (fin.backup = None \/ Get(fin.backup).version # Some(2))) =>
            /\ fout.r.err \in {"Invalid backup format", "Unsupported backup version"}
            /\ fout.r.log = <<>>
            /\ fout.r.out = None
    /\ (fout.called /\ fin.kind = "encryptKeys" /\ fout.r.err = "") =>
            /\ IsSome(fout.r.out)
            /\ Get(fout.r.out).version = Some(2)
            /\ Get(fout.r.out).data = None

\* the legacy backup is refused
C30_Witness ==
    /\ fout.called
    /\ fin.kind = "decryptKeys"
    /\ fin.backup = Some(LegacyBackup)
    /\ fout.r.err = "Unsupported backup version"

\* a backup written by encryptKeys is decrypted with its password
C30_WitnessRoundTrip ==
    /\ fout.called
    /\ fin.kind = "decryptKeys"
    /\ fout.r.err = ""
    /\ fout.r.out = Some(KeysOf("alice"))

(***************************************************************************)
(* C31: with an atomic check-and-mark over the seen table as replay check  *)
(* and runMaintenance run at any time, decryptMessage returns the message  *)
(* of an envelope at most once, whatever the ttl of the envelope.          *)
(***************************************************************************)
C31_AcceptedOnce ==
    \A i, j \in 1..Len(accepted) : accepted[i] = accepted[j] => i = j

\* the part of C31 that holds: an envelope whose ttl is within the retention
\* of the seen table is accepted at most once
C31_ShortTtlAcceptedOnce ==
    (origin.kind = "encrypt" /\ Get(origin.q.ttlMs) <= SEEN_RETENTION_S) =>
        \A i, j \in 1..Len(accepted) : accepted[i] = accepted[j] => i = j

\* the exp of the envelope as encryptMessage made it
SenderExp == Get(Get(encryptMessage(origin.q, origin.at, 1).msg).exp)

(***************************************************************************)
(* C32: an envelope that differs from one made by encryptMessage in its    *)
(* exp only, exp changed or removed, is never accepted by decryptMessage   *)
(* in normal mode at a time later than the exp the sender gave it.         *)
(***************************************************************************)
C32_SenderExpiryEnforced ==
    (/\ last.called
     /\ origin.kind = "encrypt"
     /\ origin.err = ""
     /\ \A i \in 1..Len(hist) : hist[i].field = "exp"
     /\ ~last.p.strictMode
     /\ last.p.now > SenderExp) => last.r.err # ""

\* the part of C32 that holds: the envelope as the sender made it is
\* rejected as expired after its exp
C32_UnchangedExpiryEnforced ==
    (/\ last.called
     /\ origin.kind = "encrypt"
     /\ origin.err = ""
     /\ hist = <<>>
     /\ ~last.p.strictMode
     /\ last.p.now > SenderExp) => last.r.err = "Message expired"

\* the onMessageReceived calls that delivered the text m
Deliveries(m) ==
    {i \in DOMAIN bleEvents :
        bleEvents[i].kind = "onMessageReceived" /\ bleEvents[i].message = m}

AllWritten == \A i \in DOMAIN bleTasks : bleTasks[i].pc \in {"done", "BLE_SEND_FAILED"}

(***************************************************************************)
(* C33: when sendIdentity or a second sendMessage is called while a        *)
(* sendMessage of several chunks is writing on the same connection, the    *)
(* receiver delivers each of the transfers whole and once, and reports no  *)
(* RECEIVE_FAILED, however the chunk writes interleave.                    *)
(***************************************************************************)
C33_ConcurrentTransfersDelivered ==
    /\ \A i \in DOMAIN bleEvents : bleEvents[i].kind # "onError"
    /\ \A i \in DOMAIN bleTasks : Cardinality(Deliveries(bleTasks[i].text)) <= 1
    /\ AllWritten =>
          \A i \in DOMAIN bleTasks : Cardinality(Deliveries(bleTasks[i].text)) = 1

(***************************************************************************)
(* C34: a message that sendMessage accepts, up to 150 KB of JSON, whose    *)
(* chunks arrive in the order sent, is reassembled by the receiver into    *)
(* the bytes sent and delivered once to onMessageReceived.                 *)
(***************************************************************************)
C34_AcceptedMessageDelivered ==
    (Len(bleTasks) = 1 /\ bleTasks[1].pc = "done") =>
        bleEvents = <<BleMessage(bleTasks[1].text, MSG_TYPE_DIRECT)>>

\* the part of C34 that holds: a message of at most 255 chunks is delivered
\* once and whole
C34_UpTo255ChunksDelivered ==
    (Len(bleTasks) = 1 /\ bleTasks[1].pc = "done"
        /\ bleTasks[1].text.len <= 255 * CHUNK_SIZE) =>
        bleEvents = <<BleMessage(bleTasks[1].text, MSG_TYPE_DIRECT)>>

(***************************************************************************)
(* C35: every chunk that chunkMessage(E, maxChunkSize) returns is, as      *)
(* JSON, at most maxChunkSize bytes long, and so is every string that      *)
(* QRTransport.send returns, maxChunkSize being the maxPayloadSize of the  *)
(* transport.                                                              *)
(***************************************************************************)
C35_ChunkWithinMaxSize ==
    fout.called =>
        /\ \A k \in DOMAIN fout.chunked : fout.chunked[k] <= fin.maxChunkSize
        /\ \A k \in DOMAIN fout.send.sizes : fout.send.sizes[k] <= fin.maxChunkSize

\* the part of C35 that holds: a message that send returns in one piece is
\* within the size
C35_UnchunkedWithinMaxSize ==
    (fout.called /\ Len(Utf8Json(fin.message)) <= fin.maxChunkSize - 100) =>
        /\ Len(fout.send.sizes) = 1
        /\ fout.send.sizes[1] <= fin.maxChunkSize

\* the contact fp is stored and marked compromised
Compromised(store, fp) ==
    IsSome(store[fp]) /\ Get(store[fp]).verified = VERIFICATION_STATUS.COMPROMISED

(***************************************************************************)
(* C36: no saveContact, verifyContact or markContactCompromised takes a    *)
(* contact out of the status compromised: after a step, a contact that was *)
(* compromised is compromised still, or is deleted.                        *)
(***************************************************************************)
C36_CompromisedStays ==
    [][\A fp \in ContactFps :
          Compromised(contacts, fp) => (contacts'[fp] = None \/ Compromised(contacts', fp))]_vars

(***************************************************************************)
(* The outbox store: addToOutbox and updateOutboxStatus.  updateOutboxStatus *)
(* is two transactions, an idbGet and an idbPut, and other calls run        *)
(* between them.                                                            *)
(***************************************************************************)
DELIVERY_STATUS ==
    [PENDING |-> "pending", SENT |-> "sent", DELIVERED |-> "delivered",
     FAILED |-> "failed"]

\* how many updateOutboxStatus calls a behaviour starts
MaxUpdates == 3

OutboxIds == {"m1", "m2"}

UpdateStatuses == {DELIVERY_STATUS.SENT, DELIVERY_STATUS.FAILED}

\* store.get(key): the value, or undefined
idbGet(store, key) == IF key \in DOMAIN store THEN Some(store[key]) ELSE None

\* store.put(value) under the key path msgId
idbPut(store, value) == MapSet(store, value.msgId, value)

\* addToOutbox(message, recipientFp) of a message that is not in the outbox
AddToOutboxStore ==
    /\ \E msgId \in OutboxIds \ DOMAIN outboxStore :
        /\ outboxStore' = idbPut(outboxStore,
                                 [msgId |-> msgId, createdAt |-> now,
                                  status |-> DELIVERY_STATUS.PENDING, attempts |-> 0,
                                  lastAttempt |-> Null])
        /\ ocalls' = MapSet(ocalls, msgId,
                            [completed |-> 0, status |-> DELIVERY_STATUS.PENDING])
    /\ UNCHANGED <<coreVars, otasks, besideOutbox>>

\* updateOutboxStatus(msgId, status) is called
UpdateOutboxStatus ==
    /\ Len(otasks) < MaxUpdates
    /\ \E msgId \in OutboxIds, status \in UpdateStatuses :
        otasks' = Append(otasks, [msgId |-> msgId, status |-> status, pc |-> "get",
                                  entry |-> None])
    /\ UNCHANGED <<coreVars, outboxStore, ocalls, besideOutbox>>

\* const entry = await idbGet(STORE_OUTBOX, msgId); if (entry) ...
UpdateGet ==
    /\ \E i \in DOMAIN otasks :
        /\ otasks[i].pc = "get"
        /\ LET entry == idbGet(outboxStore, otasks[i].msgId)
           IN otasks' = [otasks EXCEPT ![i].entry = entry,
                                       ![i].pc = IF IsSome(entry) THEN "put" ELSE "done"]
    /\ UNCHANGED <<coreVars, outboxStore, ocalls, besideOutbox>>

\* entry.status = status; entry.lastAttempt = Date.now();
\* entry.attempts = (entry.attempts || 0) + 1
updateOutboxStatus(entry, status, t) ==
    [entry EXCEPT !.status = status, !.lastAttempt = t, !.attempts = entry.attempts + 1]

\* entry.status = status; ...; await idbPut(STORE_OUTBOX, entry)
UpdatePut ==
    /\ \E i \in DOMAIN otasks :
        /\ otasks[i].pc = "put"
        /\ LET msgId == otasks[i].msgId
               entry == updateOutboxStatus(Get(otasks[i].entry), otasks[i].status, now)
           IN /\ outboxStore' = idbPut(outboxStore, entry)
              /\ ocalls' = IF msgId \in DOMAIN ocalls
                           THEN [ocalls EXCEPT ![msgId] =
                                    [completed |-> @.completed + 1,
                                     status |-> otasks[i].status]]
                           ELSE ocalls
        /\ otasks' = [otasks EXCEPT ![i].pc = "done"]
    /\ UNCHANGED <<coreVars, besideOutbox>>

NextOutbox == AddToOutboxStore \/ UpdateOutboxStatus \/ UpdateGet \/ UpdatePut

SpecOutbox == Init /\ [][NextOutbox]_vars

(***************************************************************************)
(* C37: for every outbox entry, attempts is the number of                  *)
(* updateOutboxStatus calls completed for its msgId since it was added and *)
(* status is the status of the last of them, however the calls interleave. *)
(***************************************************************************)
C37_AttemptsCountCalls ==
    \A msgId \in DOMAIN outboxStore :
        /\ outboxStore[msgId].attempts = ocalls[msgId].completed
        /\ outboxStore[msgId].status = ocalls[msgId].status

\* the part of C37 that holds: the stored status is that of the last
\* completed call, and only addToOutbox creates an entry
C37_StatusOfLastCall ==
    /\ DOMAIN outboxStore = DOMAIN ocalls
    /\ \A msgId \in DOMAIN outboxStore : outboxStore[msgId].status = ocalls[msgId].status

\* a call for a msgId that is not in the outbox has ended and the outbox
\* has no entry for it
C37_WitnessMissing ==
    \E i \in DOMAIN otasks :
        /\ otasks[i].pc = "done"
        /\ otasks[i].entry = None
        /\ otasks[i].msgId \notin DOMAIN outboxStore

(***************************************************************************)
(* QRTransport.processScanned on any scanned text: JSON that is not an     *)
(* object, and chunks whose seq or total is missing, negative, or not what *)
(* the other chunks of the message say.  An Array slot holds <<>> (null),  *)
(* <<chunk>>, or Hole where an index below length was never assigned.      *)
(***************************************************************************)
Hole == <<0, "hole">>

\* the text null, and the text of a JSON number, string or boolean
JsonNull == [json |-> TRUE, obj |-> <<>>, null |-> TRUE]
JsonPrimitive == [json |-> TRUE, obj |-> <<>>, primitive |-> TRUE]

\* obj has the property f / obj without the property f
HasField(obj, f) == f \in DOMAIN obj
Omit(obj, f) == [x \in DOMAIN obj \ {f} |-> obj[x]]

\* new Array(total).fill(null), for total undefined or an integer >= 0:
\* new Array(undefined) is the one-element array [undefined]
NewArray(chunk) ==
    IF HasField(chunk, "total") THEN [k \in 1..chunk.total |-> None] ELSE <<None>>

\* chunks[seq] = chunk: an index at or beyond length grows the array and
\* leaves holes; a seq that is no array index sets a property and no element
ArrayAssign(array, chunk) ==
    IF HasField(chunk, "seq") /\ chunk.seq >= 0
    THEN [k \in 1..(IF chunk.seq + 1 > Len(array) THEN chunk.seq + 1 ELSE Len(array)) |->
            IF k = chunk.seq + 1 THEN Some(chunk)
            ELSE IF k <= Len(array) THEN array[k] ELSE Hole]
    ELSE array

\* reassembleChunks(chunks, naclUtil) of a buffer without null; every() and
\* sort() pass over the holes, and sort() puts them last as undefined
reassembleScanned(array) ==
    LET present == SelectSeq(array, LAMBDA slot : slot # Hole)
        first == Get(present[1])
        Fail(e) == [err |-> e, msg |-> None]
    IN  IF Len(array) = 0 THEN Fail("No chunks provided")
        ELSE IF ~HasField(first, "total") THEN Fail("Incomplete chunks")
        ELSE IF first.total # Len(array) THEN Fail("Incomplete chunks")
        ELSE IF \E k \in DOMAIN array : array[k] = Hole THEN Fail("Missing chunk sequence")
        ELSE reassembleChunks([k \in DOMAIN array |-> Get(array[k])])

\* _processChunk(chunk): the new Map, the value returned, the onMessage and
\* onError calls, and the exception that left the method, if any
processChunkAny(map, chunk) ==
    LET known == chunk.msgId \in DOMAIN map
        fresh == IF known THEN map[chunk.msgId] ELSE NewArray(chunk)
        slots == ArrayAssign(fresh, chunk)
        r == reassembleScanned(slots)
    IN  IF ~known /\ HasField(chunk, "total") /\ chunk.total < 0
        THEN [map |-> map, ret |-> None, fired |-> <<>>, errors |-> <<>>,
              threw |-> "RangeError"]
        ELSE IF \A k \in DOMAIN slots : slots[k] # None
        THEN [map |-> MapDelete(map, chunk.msgId), ret |-> r.msg,
              fired |-> IF r.err = "" THEN <<Get(r.msg)>> ELSE <<>>,
              errors |-> IF r.err = "" THEN <<>> ELSE <<r.err>>, threw |-> ""]
        ELSE [map |-> MapSet(map, chunk.msgId, slots), ret |-> None, fired |-> <<>>,
              errors |-> <<>>, threw |-> ""]

\* processScanned(data)
processScannedAny(map, data) ==
    LET parsed == JsonParse(data)
        Quiet(ret, fired, errors) ==
            [map |-> map, ret |-> ret, fired |-> fired, errors |-> errors, threw |-> ""]
    IN  IF ~JsonParses(data) THEN Quiet(None, <<>>, <<"Invalid QR code data">>)
        ELSE IF HasField(data, "null")
        THEN [map |-> map, ret |-> None, fired |-> <<>>, errors |-> <<>>,
              threw |-> "TypeError"]
        ELSE IF HasField(data, "primitive") THEN Quiet(None, <<>>, <<>>)
        ELSE IF parsed.kind = "dmesh-msg" THEN Quiet(Some(parsed), <<parsed>>, <<>>)
        ELSE IF parsed.kind = "dmesh-chunk" THEN processChunkAny(map, parsed)
        ELSE IF parsed.kind = "dmesh-id" THEN Quiet(Some(parsed), <<>>, <<>>)
        ELSE Quiet(None, <<>>, <<>>)

OddTotals == {-1, 0, 1}
OddSeqs == {-1, 3}

\* the chunk c with its total or its seq changed or left out
OddChunks(c) ==
    {[c EXCEPT !.total = t] : t \in OddTotals}
    \cup {[c EXCEPT !.seq = n] : n \in OddSeqs}
    \cup {Omit(c, "total"), Omit(c, "seq")}

AnyScans ==
    Scans \cup {JsonNull, JsonPrimitive}
    \cup {QrCode(c) : c \in UNION {OddChunks(c) : c \in QrChunks(EnvelopeOfSize("E", 3))}}

ProcessScannedAny ==
    /\ \E data \in AnyScans :
        LET r == processScannedAny(receivedChunks, data)
        IN  /\ receivedChunks' = r.map
            /\ qlast' = [called |-> TRUE, data |-> data, ret |-> r.ret, fired |-> r.fired,
                         errors |-> r.errors, threw |-> r.threw, before |-> scanned]
    /\ UNCHANGED <<coreVars, scanned, besideQr>>

NextQrAny == ProcessScannedAny

SpecQrAny == Init /\ [][NextQrAny]_vars

(***************************************************************************)
(* C38: processScanned never throws, whatever text was scanned: text that  *)
(* is not JSON, JSON that is no object, an object of unknown kind, a chunk *)
(* whose seq or total is missing, out of range, or at odds with the        *)
(* earlier chunks of its message.                                          *)
(***************************************************************************)
C38_NeverThrows == qlast.called => qlast.threw = ""

\* the message a scanned text is a chunk of, if it is a chunk
ScannedMsgIds(data) ==
    IF JsonParses(data) /\ ~HasField(data, "null") /\ ~HasField(data, "primitive")
    THEN IF JsonParse(data).kind = "dmesh-chunk" THEN {JsonParse(data).msgId} ELSE {}
    ELSE {}

\* the part of C38 that holds: a call leaves the buffers of the other
\* messages as they were, and a call that throws or reports an error
\* delivers no message
C38_OtherBuffersUnchanged ==
    [][\A id \in DOMAIN receivedChunks \ ScannedMsgIds(qlast'.data) :
          /\ id \in DOMAIN receivedChunks'
          /\ receivedChunks'[id] = receivedChunks[id]]_vars

C38_ErrorDeliversNothing ==
    (qlast.called /\ (qlast.threw # "" \/ qlast.errors # <<>>)) =>
        qlast.ret = None /\ qlast.fired = <<>>

====
